---- MODULE Spec2Model ----
(***************************************************************************)
(* Model of the AI-Curation workflow supervisor: the SupervisorAgent of    *)
(* agents/supervisor.py driving the WorkflowState and RetryHelper of       *)
(* utils/workflow_utils.py from the menu loop of main.py.                  *)
(*                                                                         *)
(* Text is modelled as a sequence of tokens (a token is a word or a fixed  *)
(* phrase); the empty sequence stands for both None and "" where the code  *)
(* only tests truthiness.  Substring tests are made token by token.        *)
(*                                                                         *)
(* The discovery pipeline of agents/news_gatherer.py (query planner,       *)
(* source client, candidate collection, gather_news) is modelled by its    *)
(* own specifications over its own variables.  Text there is modelled by   *)
(* strings.                                                                *)
(***************************************************************************)
EXTENDS Integers, Sequences, FiniteSets, TLC

\* ------------------------------------------------------------------ bounds
\* Largest value of config.max_retries that is explored.
MaxRetries == 4
\* Number of menu operations (workflow runs, single-step runs) explored.
MaxRuns == 2
\* Number of agent invocations explored in one behaviour.
MaxInvocations == 6

\* Largest keyword, trusted-domain and priority-link lists explored.
MaxKeywords == 6
MaxDomains == 2
MaxLinks == 2

\* Largest number of probed methods the search tool has, and largest
\* config.max_results explored.
MaxMethods == 1
MaxItems == 3
MaxResults == 2

\* Values explored for config.retry_delay (seconds); 5 is the default.
RetryDelays == {5}

\* ------------------------------------------------------------ value domain
NoneV == [kind |-> "None"]
DictV(items) == [kind |-> "dict", items |-> items]
StrV(val) == [kind |-> "str", val |-> val]
ListV(elems) == [kind |-> "list", elems |-> elems]

\* Python truthiness of a value.
Truthy(v) ==
    CASE v.kind = "None" -> FALSE
      [] v.kind = "dict" -> DOMAIN v.items # {}
      [] v.kind = "str" -> v.val # <<>>
      [] v.kind = "list" -> v.elems # <<>>
      [] OTHER -> TRUE

\* dict.get(key, default)
Get(d, key, default) == IF key \in DOMAIN d.items THEN d.items[key] ELSE default

\* Variant: any truthy value is accepted.
IsValidResult_any_truthy(result) == Truthy(result)

\* `result and (isinstance(result, dict) or isinstance(result, str))`
IsValidResult(result) == Truthy(result) /\ result.kind \in {"dict", "str"}

\* What run_agent_with_runner can hand back for a step: a non-empty mapping
\* with the first known result key found, or the raw text under 'output'.
RunnerResults(step_name) ==
    { DictV([output |-> <<"text">>]),
      CASE step_name = "news_gathering" ->
               DictV([curated_content |-> <<"news">>])
        [] step_name = "social_media_monitoring" ->
               DictV([social_media_report |-> <<"posts">>])
        [] OTHER -> DictV([generated_content |-> <<"article">>]) }

\* Messages of the exceptions an agent invocation raises: the runner's own
\* RuntimeError, and one credential failure per agent.
RunnerErrors(step_name) ==
    { <<"did not return any output.">>,
      CASE step_name = "news_gathering" -> <<"401", "Authentication", "required">>
        [] step_name = "social_media_monitoring" -> <<"authorization", "denied">>
        [] OTHER -> <<"Invalid_API_Key">> }

\* What a step function handed to execute_with_retry can return: any value.
StepFnValues ==
    { NoneV, DictV(<<>>), StrV(<<>>), ListV(<<>>), ListV(<<"item">>),
      DictV([output |-> <<"text">>]), StrV(<<"text">>) }

NoValidResults == <<"Agent returned no valid results">>

\* str.lower() on one token.
Lower(t) ==
    CASE t = "Authentication" -> "authentication"
      [] t = "Invalid_API_Key" -> "invalid_api_key"
      [] OTHER -> t

LowerStr(s) == [i \in 1..Len(s) |-> Lower(s[i])]

\* `err in error_str`
Contains(s, t) == \E i \in 1..Len(s) : s[i] = t

\* ------------------------------------------------------------ step records
StepOrder == <<"news_gathering", "social_media_monitoring",
               "content_generation", "final_output">>
StepNames == {StepOrder[i] : i \in 1..Len(StepOrder)}

AgentName(step_name) ==
    CASE step_name = "news_gathering" -> "News Gathering Agent"
      [] step_name = "social_media_monitoring" -> "Social Media Monitoring Agent"
      [] step_name = "content_generation" -> "Content Generation Agent"
      [] OTHER -> "final_output"

NewStep(name) ==
    [name |-> name, status |-> "pending", attempts |-> 0, max_attempts |-> 3,
     start_time |-> "None", end_time |-> "None", duration |-> "None",
     error |-> <<>>, result |-> NoneV]

\* WorkflowState.__init__ followed by the four add_step calls of
\* SupervisorAgent._initialize_workflow.
InitialWorkflowState ==
    [status |-> "pending",
     start_time |-> "None",
     end_time |-> "None",
     steps |-> [s \in StepNames |-> NewStep(s)],
     results |-> <<>>,
     errors |-> <<>>,
     metadata |-> [total_steps |-> Len(StepOrder), completed_steps |-> 0,
                   failed_steps |-> 0]]

start_workflow(ws) == [ws EXCEPT !.start_time = "set", !.status = "running"]

complete_workflow(ws, status) == [ws EXCEPT !.end_time = "set", !.status = status]

start_step(ws, step_name, attempt) ==
    IF step_name \in DOMAIN ws.steps
    THEN [ws EXCEPT !.steps[step_name].status = "running",
                    !.steps[step_name].attempts = attempt,
                    !.steps[step_name].start_time = "set"]
    ELSE ws

\* Variant: a failure is recorded but the step's status is left as it was.
complete_step_leaves_running(ws, step_name, result, error) ==
    IF step_name \in DOMAIN ws.steps
    THEN LET timed == [ws EXCEPT
                 !.steps[step_name].end_time = "set",
                 !.steps[step_name].duration =
                     IF ws.steps[step_name].start_time # "None" THEN "set" ELSE @]
         IN IF error # <<>>
            THEN [timed EXCEPT
                    !.steps[step_name].error = error,
                    !.metadata.failed_steps = @ + 1,
                    !.errors = Append(@, [step |-> step_name, error |-> error])]
            ELSE [timed EXCEPT
                    !.steps[step_name].status = "success",
                    !.steps[step_name].result = result,
                    !.results = (step_name :> result) @@ @,
                    !.metadata.completed_steps = @ + 1]
    ELSE ws

complete_step(ws, step_name, result, error) ==
    IF step_name \in DOMAIN ws.steps
    THEN LET timed == [ws EXCEPT
                 !.steps[step_name].end_time = "set",
                 !.steps[step_name].duration =
                     IF ws.steps[step_name].start_time # "None" THEN "set" ELSE @]
         IN IF error # <<>>
            THEN [timed EXCEPT
                    !.steps[step_name].status = "failed",
                    !.steps[step_name].error = error,
                    !.metadata.failed_steps = @ + 1,
                    !.errors = Append(@, [step |-> step_name, error |-> error])]
            ELSE [timed EXCEPT
                    !.steps[step_name].status = "success",
                    !.steps[step_name].result = result,
                    !.results = (step_name :> result) @@ @,
                    !.metadata.completed_steps = @ + 1]
    ELSE ws

\* Variant: a retried step is put back to pending.
retry_step_to_pending(ws, step_name) ==
    IF step_name \in DOMAIN ws.steps
    THEN [ws EXCEPT !.steps[step_name].status = "pending"]
    ELSE ws

\* Variant: a retried attempt is booked in the errors sequence.
retry_step_records_error(ws, step_name) ==
    IF step_name \in DOMAIN ws.steps
    THEN [ws EXCEPT !.steps[step_name].status = "retrying",
                    !.errors = Append(@, [step |-> step_name,
                                          error |-> <<"retrying">>])]
    ELSE ws

\* Variant: a retried step loses the result an earlier run stored for it.
retry_step_drops_result(ws, step_name) ==
    IF step_name \in DOMAIN ws.steps
    THEN [ws EXCEPT !.steps[step_name].status = "retrying",
                    !.results = [k \in DOMAIN @ \ {step_name} |-> @[k]]]
    ELSE ws

retry_step(ws, step_name) ==
    IF step_name \in DOMAIN ws.steps
    THEN [ws EXCEPT !.steps[step_name].status = "retrying"]
    ELSE ws

\* Variant: a skip is booked like a failure.
skip_step_counts_failure(ws, step_name, reason) ==
    IF step_name \in DOMAIN ws.steps
    THEN [ws EXCEPT !.steps[step_name].status = "skipped",
                    !.steps[step_name].error = reason,
                    !.metadata.failed_steps = @ + 1,
                    !.errors = Append(@, [step |-> step_name, error |-> reason])]
    ELSE ws

skip_step(ws, step_name, reason) ==
    IF step_name \in DOMAIN ws.steps
    THEN [ws EXCEPT !.steps[step_name].status = "skipped",
                    !.steps[step_name].error = reason]
    ELSE ws

\* -------------------------------------------------------------- RetryHelper
NonRetriableErrors == {"authentication", "authorization", "invalid_api_key"}

\* Variant: the message is matched without lower-casing it.
should_retry_case_sensitive(attempt, max_attempts, error) ==
    IF attempt >= max_attempts
    THEN FALSE
    ELSE IF \E err \in NonRetriableErrors : Contains(error, err)
         THEN FALSE
         ELSE TRUE

should_retry(attempt, max_attempts, error) ==
    IF attempt >= max_attempts
    THEN FALSE
    ELSE IF \E err \in NonRetriableErrors : Contains(LowerStr(error), err)
         THEN FALSE
         ELSE TRUE

\* Variant: the delay grows linearly with the attempt number.
get_delay_linear(attempt, base_delay) == base_delay * attempt

get_delay(attempt, base_delay) == base_delay * (2 ^ (attempt - 1))

\* -------------------------------------------------------------------- state
VARIABLES
    config,           \* the Config singleton (read once from the environment)
    workflow_state,   \* supervisor.workflow_state
    pc,               \* position of the single thread of control
    op,               \* menu operation in progress or last finished
    call,             \* frame of execute_with_retry
    ret,              \* how the last call left: returned value or raised
    news_results,     \* locals of run_workflow
    social_results,
    content_results,
    aborted,          \* run_workflow went through its except clause
    agent_state,      \* state mapping handed to the content generation agent
    outcomes,         \* history: what each attempt of the current call did
    sleeps,           \* history: backoff sleeps of the current call
    started,          \* history: steps started during the current operation
    persisted,        \* last workflow report and state file written
    intermediate,     \* what became of the current call's intermediate file
    runs,             \* number of menu operations begun
    invocations       \* number of agent invocations made

VARIABLES
    ng_config,        \* the attributes of config that news_gatherer.py reads
    phase,            \* position of gather_news
    queries,          \* local of gather_news
    tool_methods,     \* how many of the probed methods google_search has
    qi,               \* _search_candidates: index of the query being run
    ci,               \* _call_google_adk_search: index of the call shape
    res,              \* _search_candidates: result for the current query
    all_items,        \* _search_candidates: records collected so far
    seen_urls,        \* _search_candidates: urls collected so far
    tally,            \* history: outcomes of the current query's calls
    feed,             \* history: what the feed did for the current query
    candidates,       \* locals of gather_news
    filtered,
    enriched

VARIABLES
    dt_str,           \* argument of _normalize_date
    date_ret,         \* how _normalize_date left
    final_payload,    \* what the agent's final event yields, None for nothing
    session_state,    \* the session's state after the run, None for no session
    runner_ret        \* how run_agent_with_runner left

helperVars == <<dt_str, date_ret, final_payload, session_state, runner_ret>>

searchVars == <<tool_methods, qi, ci, res, all_items, seen_urls, tally, feed>>

resultVars == <<candidates, filtered, enriched>>

gatherVars ==
    <<ng_config, phase, queries, searchVars, resultVars, helperVars>>

supervisorVars ==
    <<config, workflow_state, pc, op, call, ret, news_results,
      social_results, content_results, aborted, agent_state, outcomes,
      sleeps, started, persisted, intermediate, runs, invocations>>

vars == <<supervisorVars, gatherVars>>

NoCall == [step_name |-> "none", agent_name |-> "none", attempt |-> 0,
           max_retries |-> 0]
NoRet == [kind |-> "none", value |-> NoneV]
Returned(v) == [kind |-> "returned", value |-> v]
Raised == [kind |-> "raised", value |-> NoneV]
NoSnapshot == [status |-> "none", steps |-> <<>>]

\* What the report and the state file record of the workflow.
Snapshot(ws) ==
    [status |-> ws.status,
     steps |-> [s \in DOMAIN ws.steps |-> ws.steps[s].status]]

Configs ==
    [max_retries : 0..MaxRetries,
     retry_delay : RetryDelays,
     continue_on_failure : BOOLEAN,
     save_intermediate_results : BOOLEAN]

\* The supervisor configuration when the environment sets nothing.
DefaultConfig ==
    [max_retries |-> 3, retry_delay |-> 5, continue_on_failure |-> TRUE,
     save_intermediate_results |-> TRUE]

\* The configuration news_gatherer.py is written against: the query planner
\* reads keywords, source_domains, resource_links and start_date_iso.
NoGatherConfig ==
    [keywords |-> <<>>, source_domains |-> <<>>, resource_links |-> <<>>,
     start_date_iso |-> "", max_results |-> 0]

\* Outcome labels of a call of the search tool, none counted yet.
NoTally ==
    [label \in {"raises", "none", "empty_list", "empty_results", "list",
                "results", "single"} |-> 0]

\* The locals of _search_candidates and gather_news before any query is run.
SearchIdle ==
    /\ qi = 1
    /\ ci = 1
    /\ res = NoneV
    /\ all_items = <<>>
    /\ seen_urls = {}
    /\ tally = NoTally
    /\ feed = "not_called"
    /\ candidates = <<>>
    /\ filtered = <<>>
    /\ enriched = <<>>

\* The empty date text (see DateText).
EmptyText ==
    [layout |-> "empty", year |-> 0, month |-> 0, day |-> 0,
     padded |-> FALSE, tail |-> ""]

\* Neither _normalize_date nor run_agent_with_runner has been called.
HelperIdle ==
    /\ dt_str = EmptyText
    /\ date_ret = NoRet
    /\ final_payload = NoneV
    /\ session_state = NoneV
    /\ runner_ret = NoRet

\* gather_news has not been called.
GatherIdle ==
    /\ ng_config = NoGatherConfig
    /\ phase = "idle"
    /\ queries = <<>>
    /\ tool_methods = 0
    /\ SearchIdle

\* The supervisor as constructed at import, before any menu choice.
SupervisorInit ==
    /\ workflow_state = InitialWorkflowState
    /\ pc = "menu"
    /\ op = "none"
    /\ call = NoCall
    /\ ret = NoRet
    /\ news_results = NoneV
    /\ social_results = NoneV
    /\ content_results = NoneV
    /\ aborted = FALSE
    /\ agent_state = <<>>
    /\ outcomes = <<>>
    /\ sleeps = <<>>
    /\ started = {}
    /\ persisted = [report |-> NoSnapshot, state |-> NoSnapshot]
    /\ intermediate = "not_attempted"
    /\ runs = 0
    /\ invocations = 0

Init ==
    /\ config \in Configs
    /\ SupervisorInit
    /\ GatherIdle
    /\ HelperIdle

\* Entry of execute_with_retry(step_name, executor, agent_name, state):
\* max_retries defaults to config.max_retries, the for loop is at its head.
EnterExecuteWithRetry(step_name) ==
    /\ call' = [step_name |-> step_name, agent_name |-> AgentName(step_name),
                attempt |-> 1, max_retries |-> config.max_retries]
    /\ ret' = NoRet
    /\ outcomes' = <<>>
    /\ sleeps' = <<>>
    /\ intermediate' = "not_attempted"
    /\ pc' = "loop"

\* ------------------------------------------------------- execute_with_retry
\* Head of `for attempt in range(1, max_retries + 1)`, then start_step.
StartAttempt ==
    /\ pc = "loop"
    /\ call.attempt <= call.max_retries
    /\ (runs = 1 \/ invocations < MaxInvocations)
    /\ invocations' = invocations + 1
    /\ workflow_state' = start_step(workflow_state, call.step_name, call.attempt)
    /\ started' = started \cup {call.step_name}
    /\ pc' = "await"
    /\ UNCHANGED <<config, op, call, ret, news_results, social_results,
                   content_results, aborted, agent_state, outcomes, sleeps,
                   persisted, intermediate, runs>>
    /\ UNCHANGED gatherVars

\* The for loop ends without having run its body: `return None` (line 143).
LoopExhausted ==
    /\ pc = "loop"
    /\ call.attempt > call.max_retries
    /\ ret' = Returned(NoneV)
    /\ pc' = "returned"
    /\ UNCHANGED <<config, workflow_state, op, call, news_results,
                   social_results, content_results, aborted, agent_state,
                   outcomes, sleeps, started, persisted, intermediate, runs,
                   invocations>>
    /\ UNCHANGED gatherVars

\* Variant: the terminal failure is re-raised whatever continue_on_failure.
HandleException_always_raise(e) ==
    LET error_msg == <<call.agent_name, "failed:">> \o e IN
    IF /\ call.attempt < call.max_retries
       /\ should_retry(call.attempt, call.max_retries, e)
    THEN /\ workflow_state' = retry_step(workflow_state, call.step_name)
         /\ sleeps' = Append(sleeps, get_delay(call.attempt, config.retry_delay))
         /\ call' = [call EXCEPT !.attempt = @ + 1]
         /\ pc' = "loop"
         /\ UNCHANGED ret
    ELSE /\ workflow_state' =
                complete_step(workflow_state, call.step_name, NoneV, error_msg)
         /\ ret' = Raised
         /\ pc' = "returned"
         /\ UNCHANGED <<sleeps, call>>

\* Variant: the terminal failure is never re-raised.
HandleException_never_raise(e) ==
    LET error_msg == <<call.agent_name, "failed:">> \o e IN
    IF /\ call.attempt < call.max_retries
       /\ should_retry(call.attempt, call.max_retries, e)
    THEN /\ workflow_state' = retry_step(workflow_state, call.step_name)
         /\ sleeps' = Append(sleeps, get_delay(call.attempt, config.retry_delay))
         /\ call' = [call EXCEPT !.attempt = @ + 1]
         /\ pc' = "loop"
         /\ UNCHANGED ret
    ELSE /\ workflow_state' =
                complete_step(workflow_state, call.step_name, NoneV, error_msg)
         /\ ret' = Returned(NoneV)
         /\ pc' = "returned"
         /\ UNCHANGED <<sleeps, call>>

\* Variant: the last allowed attempt is retried like the earlier ones.
HandleException_retries_last(e) ==
    LET error_msg == <<call.agent_name, "failed:">> \o e IN
    IF \A err \in NonRetriableErrors : ~Contains(LowerStr(e), err)
    THEN /\ workflow_state' = retry_step(workflow_state, call.step_name)
         /\ sleeps' = Append(sleeps, get_delay(call.attempt, config.retry_delay))
         /\ call' = [call EXCEPT !.attempt = @ + 1]
         /\ pc' = "loop"
         /\ UNCHANGED ret
    ELSE /\ workflow_state' =
                complete_step(workflow_state, call.step_name, NoneV, error_msg)
         /\ ret' = IF ~config.continue_on_failure THEN Raised ELSE Returned(NoneV)
         /\ pc' = "returned"
         /\ UNCHANGED <<sleeps, call>>

\* The except clause of execute_with_retry for an exception with message e.
HandleException(e) ==
    LET error_msg == <<call.agent_name, "failed:">> \o e IN
    IF /\ call.attempt < call.max_retries
       /\ should_retry(call.attempt, call.max_retries, e)
    THEN /\ workflow_state' = retry_step(workflow_state, call.step_name)
         /\ sleeps' = Append(sleeps, get_delay(call.attempt, config.retry_delay))
         /\ call' = [call EXCEPT !.attempt = @ + 1]
         /\ pc' = "loop"
         /\ UNCHANGED ret
    ELSE /\ workflow_state' =
                complete_step(workflow_state, call.step_name, NoneV, error_msg)
         /\ ret' = IF ~config.continue_on_failure THEN Raised ELSE Returned(NoneV)
         /\ pc' = "returned"
         /\ UNCHANGED <<sleeps, call>>

\* Outcomes of _save_intermediate_result when the step has succeeded: it is
\* not called unless config.save_intermediate_results, and its write may fail.
IntermediateWrites ==
    IF config.save_intermediate_results
    THEN {"written", "write_failed"} ELSE {"not_attempted"}

\* Variant: a failed write of the intermediate file reaches the except clause
\* of execute_with_retry as the step's terminal failure.
CompleteAndSave_write_fatal(result, write) ==
    LET done == complete_step(workflow_state, call.step_name, result, <<>>) IN
    /\ intermediate' = write
    /\ workflow_state' =
          IF write = "write_failed"
          THEN complete_step(done, call.step_name, NoneV,
                             <<call.agent_name, "failed:", "OSError">>)
          ELSE done
    /\ ret' = IF write = "write_failed" THEN Returned(NoneV) ELSE Returned(result)
    /\ pc' = "returned"
    /\ UNCHANGED <<sleeps, call>>

\* The valid-result branch (lines 96-107): complete_step, then the
\* intermediate file, whose failure _save_intermediate_result only logs, then
\* `return result`.
CompleteAndSave(result, write) ==
    /\ intermediate' = write
    /\ workflow_state' =
          complete_step(workflow_state, call.step_name, result, <<>>)
    /\ ret' = Returned(result)
    /\ pc' = "returned"
    /\ UNCHANGED <<sleeps, call>>

\* What the executor of the current call can return: the three agents are run
\* through run_agent_with_runner, any other step function returns any value.
ExecutorResults ==
    IF op = "direct" THEN StepFnValues ELSE RunnerResults(call.step_name)

\* `result = await agent_executor(state)` returns.
AgentReturns ==
    /\ pc = "await"
    /\ \E result \in ExecutorResults :
        /\ outcomes' = Append(outcomes, [kind |-> "returned", value |-> result,
                                         error |-> <<>>])
        /\ IF IsValidResult(result)
           THEN \E write \in IntermediateWrites : CompleteAndSave(result, write)
           ELSE HandleException(NoValidResults) /\ UNCHANGED intermediate
    /\ UNCHANGED <<config, op, news_results, social_results, content_results,
                   aborted, agent_state, started, persisted, runs, invocations>>
    /\ UNCHANGED gatherVars

\* `result = await agent_executor(state)` raises.
AgentRaises ==
    /\ pc = "await"
    /\ \E e \in RunnerErrors(call.step_name) :
        /\ outcomes' = Append(outcomes, [kind |-> "raised", value |-> NoneV,
                                         error |-> e])
        /\ HandleException(e)
    /\ UNCHANGED <<config, op, news_results, social_results, content_results,
                   aborted, agent_state, started, persisted, intermediate, runs,
                   invocations>>
    /\ UNCHANGED gatherVars

\* ------------------------------------------------------------- run_workflow
\* `except Exception` of run_workflow: the workflow is marked failed and
\* control goes on to compile_final_output.
WorkflowExcept ==
    /\ workflow_state' = complete_workflow(workflow_state, "failed")
    /\ aborted' = TRUE
    /\ pc' = "compile"

\* Variant: upstream successes are not taken into account.
DetermineStatus_no_partial(content, news, social) ==
    IF Truthy(content) THEN "success" ELSE "failed"

\* Variant: success asks for every step's result.
DetermineStatus_needs_all(content, news, social) ==
    IF Truthy(content) /\ Truthy(news) /\ Truthy(social) THEN "success"
    ELSE IF Truthy(news) \/ Truthy(social) \/ Truthy(content) THEN "partial"
    ELSE "failed"

\* "Determine overall workflow status" (lines 414-420).
DetermineStatus(content, news, social) ==
    IF Truthy(content) THEN "success"
    ELSE IF Truthy(news) \/ Truthy(social) THEN "partial"
    ELSE "failed"

\* Variant: only the social-watch result is looked at.
ShouldSkip_ignores_news(news, social) == ~Truthy(social)

\* "Check if we have any input" (line 256).
ShouldSkip(news, social) == ~Truthy(news) /\ ~Truthy(social)

\* The state mapping run_content_generation prepares (upstream part only).
ContentState(news, social) ==
    [gathered_news |->
        IF Truthy(news) THEN Get(news, "curated_content", <<>>) ELSE <<>>,
     gathered_posts |->
        IF Truthy(social) THEN Get(social, "social_media_report", <<>>) ELSE <<>>,
     social_media_analysis |->
        IF Truthy(social) THEN Get(social, "analysis", <<>>) ELSE <<>>]

\* Menu choice 1: run_workflow up to the call of run_news_gathering.
RunWorkflow ==
    /\ pc = "menu"
    /\ runs < MaxRuns
    /\ runs' = runs + 1
    /\ op' = "workflow"
    /\ workflow_state' = start_workflow(workflow_state)
    /\ news_results' = NoneV
    /\ social_results' = NoneV
    /\ content_results' = NoneV
    /\ aborted' = FALSE
    /\ agent_state' = <<>>
    /\ started' = {}
    /\ EnterExecuteWithRetry("news_gathering")
    /\ UNCHANGED <<config, persisted, invocations>>
    /\ UNCHANGED gatherVars

\* run_news_gathering has returned or raised; step 2 is called.
WfAfterNews ==
    /\ pc = "returned"
    /\ op = "workflow"
    /\ call.step_name = "news_gathering"
    /\ IF ret.kind = "raised"
       THEN /\ WorkflowExcept
            /\ UNCHANGED <<call, ret, news_results, outcomes, sleeps,
                           intermediate>>
       ELSE /\ news_results' = ret.value
            /\ EnterExecuteWithRetry("social_media_monitoring")
            /\ UNCHANGED <<workflow_state, aborted>>
    /\ UNCHANGED <<config, op, social_results, content_results, agent_state,
                   started, persisted, runs, invocations>>
    /\ UNCHANGED gatherVars

\* run_social_media_monitoring has returned or raised; run_content_generation
\* prepares its state and either skips the step or calls execute_with_retry.
WfAfterSocial ==
    /\ pc = "returned"
    /\ op = "workflow"
    /\ call.step_name = "social_media_monitoring"
    /\ IF ret.kind = "raised"
       THEN /\ WorkflowExcept
            /\ UNCHANGED <<call, ret, social_results, agent_state, outcomes,
                           sleeps, intermediate>>
       ELSE /\ social_results' = ret.value
            /\ agent_state' = ContentState(news_results, ret.value)
            /\ UNCHANGED aborted
            /\ IF ShouldSkip(news_results, ret.value)
               THEN /\ workflow_state' =
                          skip_step(workflow_state, "content_generation",
                                    <<"No input data from previous steps">>)
                    /\ call' = NoCall
                    /\ ret' = Returned(NoneV)
                    /\ outcomes' = <<>>
                    /\ sleeps' = <<>>
                    /\ intermediate' = "not_attempted"
                    /\ pc' = "skipped"
               ELSE /\ EnterExecuteWithRetry("content_generation")
                    /\ UNCHANGED workflow_state
    /\ UNCHANGED <<config, op, news_results, content_results, started,
                   persisted, runs, invocations>>
    /\ UNCHANGED gatherVars

\* run_content_generation has returned or raised; the workflow status is
\* derived and recorded.
WfAfterContent ==
    /\ op = "workflow"
    /\ \/ pc = "skipped"
       \/ pc = "returned" /\ call.step_name = "content_generation"
    /\ IF ret.kind = "raised"
       THEN /\ WorkflowExcept
            /\ UNCHANGED content_results
       ELSE /\ content_results' = ret.value
            /\ workflow_state' = complete_workflow(workflow_state,
                  DetermineStatus(ret.value, news_results, social_results))
            /\ pc' = "compile"
            /\ UNCHANGED aborted
    /\ UNCHANGED <<config, op, call, ret, news_results, social_results,
                   agent_state, outcomes, sleeps, started, persisted,
                   intermediate, runs, invocations>>
    /\ UNCHANGED gatherVars

\* compile_final_output up to the try block: the packaging step is started.
CompileFinalOutput ==
    /\ pc = "compile"
    /\ workflow_state' = start_step(workflow_state, "final_output", 1)
    /\ started' = started \cup {"final_output"}
    /\ pc' = "saving"
    /\ UNCHANGED <<config, op, call, ret, news_results, social_results,
                   content_results, aborted, agent_state, outcomes, sleeps,
                   persisted, intermediate, runs, invocations>>
    /\ UNCHANGED gatherVars

\* Keys of the content result whose value is saved as the content file.
ContentKeys == {"generated_content", "blog_post", "final_content"}

\* "Save main content if available" (lines 323-333).
HasContentFile(content) ==
    Truthy(content) /\ DOMAIN content.items \cap ContentKeys # {}

\* Head of the try block of compile_final_output: the content file is
\* written when there is one; a failed write goes to the except clause, which
\* fails the packaging step, and run_workflow returns to the menu.
SaveContentFile ==
    /\ pc = "saving"
    /\ \E written \in IF HasContentFile(content_results)
                      THEN BOOLEAN ELSE {TRUE} :
        IF written
        THEN pc' = "report" /\ UNCHANGED workflow_state
        ELSE /\ workflow_state' =
                   complete_step(workflow_state, "final_output", NoneV,
                       <<"Failed to save final outputs:", "OSError">>)
             /\ pc' = "menu"
    /\ UNCHANGED <<config, op, call, ret, news_results, social_results,
                   content_results, aborted, agent_state, outcomes, sleeps,
                   started, persisted, intermediate, runs, invocations>>
    /\ UNCHANGED gatherVars

\* Variant: the packaging step is completed before the report and the state
\* file are written.
SaveFinalOutputs_completes_first ==
    /\ pc = "report"
    /\ \E fail \in {"none", "report", "state"} :
        /\ workflow_state' =
              IF fail = "none"
              THEN complete_step(workflow_state, "final_output",
                       DictV([workflow_id |-> <<"workflow">>]), <<>>)
              ELSE complete_step(workflow_state, "final_output", NoneV,
                       <<"Failed to save final outputs:", "OSError">>)
        /\ persisted' =
              [report |-> IF fail \in {"none", "state"}
                          THEN Snapshot(workflow_state') ELSE persisted.report,
               state |-> IF fail = "none"
                         THEN Snapshot(workflow_state') ELSE persisted.state]
    /\ pc' = "menu"
    /\ UNCHANGED <<config, op, call, ret, news_results, social_results,
                   content_results, aborted, agent_state, outcomes, sleeps,
                   started, intermediate, runs, invocations>>
    /\ UNCHANGED gatherVars

\* Rest of the try block: the report is formatted and written, then the
\* state file; either write may fail; then the summary is printed and
\* run_workflow returns to the menu.
SaveFinalOutputs ==
    /\ pc = "report"
    /\ \E fail \in {"none", "report", "state"} :
        /\ persisted' =
              [report |-> IF fail \in {"none", "state"}
                          THEN Snapshot(workflow_state) ELSE persisted.report,
               state |-> IF fail = "none"
                         THEN Snapshot(workflow_state) ELSE persisted.state]
        /\ workflow_state' =
              IF fail = "none"
              THEN complete_step(workflow_state, "final_output",
                       DictV([workflow_id |-> <<"workflow">>]), <<>>)
              ELSE complete_step(workflow_state, "final_output", NoneV,
                       <<"Failed to save final outputs:", "OSError">>)
    /\ pc' = "menu"
    /\ UNCHANGED <<config, op, call, ret, news_results, social_results,
                   content_results, aborted, agent_state, outcomes, sleeps,
                   started, intermediate, runs, invocations>>
    /\ UNCHANGED gatherVars

\* ------------------------------------------------------------------ main.py
SingleStepName(step) ==
    IF step = "news" THEN "news_gathering" ELSE "social_media_monitoring"

\* Advanced menu choices 1 and 2: run_single_step("news" | "social").
RunSingleStep ==
    /\ pc = "menu"
    /\ runs < MaxRuns
    /\ runs' = runs + 1
    /\ op' = "single"
    /\ news_results' = NoneV
    /\ social_results' = NoneV
    /\ content_results' = NoneV
    /\ aborted' = FALSE
    /\ agent_state' = <<>>
    /\ started' = {}
    /\ \E step \in {"news", "social"} : EnterExecuteWithRetry(SingleStepName(step))
    /\ UNCHANGED <<config, workflow_state, persisted, invocations>>
    /\ UNCHANGED gatherVars

\* The single step has returned (the result is saved, which may raise) or
\* raised; an exception leaves main_async and ends the program.
AfterSingleStep ==
    /\ pc = "returned"
    /\ op = "single"
    /\ IF ret.kind = "raised"
       THEN pc' = "exited"
       ELSE IF Truthy(ret.value)
            THEN \E saved \in BOOLEAN : pc' = IF saved THEN "menu" ELSE "exited"
            ELSE pc' = "menu"
    /\ UNCHANGED <<config, workflow_state, op, call, ret, news_results,
                   social_results, content_results, aborted, agent_state,
                   outcomes, sleeps, started, persisted, intermediate, runs,
                   invocations>>
    /\ UNCHANGED gatherVars

\* Menu choice 5.
Exit ==
    /\ pc = "menu"
    /\ pc' = "exited"
    /\ UNCHANGED <<config, workflow_state, op, call, ret, news_results,
                   social_results, content_results, aborted, agent_state,
                   outcomes, sleeps, started, persisted, intermediate, runs,
                   invocations>>
    /\ UNCHANGED gatherVars

Next ==
    \/ RunWorkflow
    \/ RunSingleStep
    \/ StartAttempt
    \/ LoopExhausted
    \/ AgentReturns
    \/ AgentRaises
    \/ WfAfterNews
    \/ WfAfterSocial
    \/ WfAfterContent
    \/ CompileFinalOutput
    \/ SaveContentFile
    \/ SaveFinalOutputs
    \/ AfterSingleStep
    \/ Exit

Spec == Init /\ [][Next]_vars

TypeOK ==
    /\ pc \in {"menu", "loop", "await", "returned", "skipped", "compile",
               "saving", "report", "exited"}
    /\ workflow_state.status \in {"pending", "running", "success", "failed",
                                  "partial", "skipped"}
    /\ \A s \in StepNames : workflow_state.steps[s].status \in
          {"pending", "running", "success", "failed", "retrying", "skipped"}

\* ------------------------------------------- execute_with_retry on its own
\* execute_with_retry is public and takes any step function: a caller hands
\* it a step name, an executor and an agent name.
CallExecuteWithRetry ==
    /\ pc = "menu"
    /\ runs < MaxRuns
    /\ runs' = runs + 1
    /\ op' = "direct"
    /\ started' = {}
    /\ \E step_name \in {"news_gathering", "content_generation"} :
          EnterExecuteWithRetry(step_name)
    /\ UNCHANGED <<config, workflow_state, news_results, social_results,
                   content_results, aborted, agent_state, persisted,
                   invocations>>
    /\ UNCHANGED gatherVars

\* The call has returned or raised and its caller goes on.
ReturnToCaller ==
    /\ pc = "returned"
    /\ op = "direct"
    /\ pc' = "menu"
    /\ UNCHANGED <<config, workflow_state, op, call, ret, news_results,
                   social_results, content_results, aborted, agent_state,
                   outcomes, sleeps, started, persisted, intermediate, runs,
                   invocations>>
    /\ UNCHANGED gatherVars

NextStepFn ==
    \/ CallExecuteWithRetry
    \/ StartAttempt
    \/ LoopExhausted
    \/ AgentReturns
    \/ AgentRaises
    \/ ReturnToCaller

SpecStepFn == Init /\ [][NextStepFn]_vars

\* The same, with the thread of control going on: the loop takes its next
\* turn or ends, and every invocation of the step function returns or raises.
SpecStepFnLive ==
    /\ Init
    /\ [][NextStepFn]_vars
    /\ WF_vars(StartAttempt)
    /\ WF_vars(LoopExhausted)
    /\ WF_vars(AgentReturns \/ AgentRaises)

\* ------------------------------------------- news_gatherer.py: the planner
\* Cap of _build_queries.
QueryCap == 50

\* The list prefix1, prefix2, ... of length n that repeats with period m.
NameList(prefix, n, m) ==
    [i \in 1..n |-> prefix \o ToString(((i - 1) % m) + 1)]

\* Lists of at most max names, with and without repeated names.
NameLists(prefix, max) ==
    {NameList(prefix, n, m) : n \in 0..max, m \in 1..max}

\* Configurations the planner is run on.
PlannerConfigs ==
    [keywords : NameLists("topic", MaxKeywords),
     source_domains : NameLists("org", MaxDomains),
     resource_links : NameLists("https://site", MaxLinks),
     start_date_iso : {"2024-01-01"},
     max_results : {10}]

\* f"after:{config.start_date_iso}"
TimeFilter(cfg) == "after:" \o cfg.start_date_iso

\* "Domain-restricted queries": for kw in keywords, for dom in source_domains.
BaseQueries(cfg) ==
    LET nd == Len(cfg.source_domains) IN
    [i \in 1..(Len(cfg.keywords) * nd) |->
        LET kw == cfg.keywords[((i - 1) \div nd) + 1]
            dom == cfg.source_domains[((i - 1) % nd) + 1]
        IN "(\"" \o kw \o "\" OR \"" \o kw \o " update\") "
              \o TimeFilter(cfg) \o " site:." \o dom]

BroadTerms == <<"news", "policy", "event", "regulation">>

\* "Broader queries": for kw in keywords, one query per term.
BroadQueries(cfg) ==
    LET nt == Len(BroadTerms) IN
    [i \in 1..(Len(cfg.keywords) * nt) |->
        LET kw == cfg.keywords[((i - 1) \div nt) + 1]
            term == BroadTerms[((i - 1) % nt) + 1]
        IN "\"" \o kw \o "\" " \o TimeFilter(cfg) \o " " \o term]

EventTerms == <<"conference", "webinar", "hearing", "summit">>

\* "Event-specific queries": for kw in keywords, one query per term.
EventQueries(cfg) ==
    LET nt == Len(EventTerms) IN
    [i \in 1..(Len(cfg.keywords) * nt) |->
        LET kw == cfg.keywords[((i - 1) \div nt) + 1]
            term == EventTerms[((i - 1) % nt) + 1]
        IN "\"" \o kw \o "\" " \o term \o " " \o TimeFilter(cfg)]

\* "Priority resource links": one query per link.
LinkQueries(cfg) ==
    [i \in 1..Len(cfg.resource_links) |->
        "site:" \o cfg.resource_links[i] \o " " \o TimeFilter(cfg)]

\* `queries` before "Dedupe and cap".
GeneratedQueries(cfg) ==
    BaseQueries(cfg) \o BroadQueries(cfg) \o EventQueries(cfg)
        \o LinkQueries(cfg)

\* Variant: of the occurrences of a key the last one is kept.
dict_fromkeys_keep_last(seq) ==
    LET kept == SelectSeq([i \in 1..Len(seq) |-> i],
                          LAMBDA i : \A k \in (i + 1)..Len(seq) : seq[k] # seq[i])
    IN [n \in 1..Len(kept) |-> seq[kept[n]]]

\* list(dict.fromkeys(seq)): the keys in insertion order, a key that is
\* already in the mapping when it is met again keeping its place.
dict_fromkeys(seq) ==
    LET kept == SelectSeq([i \in 1..Len(seq) |-> i],
                          LAMBDA i : \A k \in 1..(i - 1) : seq[k] # seq[i])
    IN [n \in 1..Len(kept) |-> seq[kept[n]]]

\* seq[:n]
Take(seq, n) == SubSeq(seq, 1, IF Len(seq) < n THEN Len(seq) ELSE n)

\* Variant: the list is de-duplicated but not cut.
build_queries_uncapped(cfg) == dict_fromkeys(GeneratedQueries(cfg))

\* _build_queries(keywords, country, days_back)
build_queries(cfg) == Take(dict_fromkeys(GeneratedQueries(cfg)), QueryCap)

\* gather_news, line 581.
BuildQueries ==
    /\ phase = "plan"
    /\ queries' = build_queries(ng_config)
    /\ phase' = "search"
    /\ UNCHANGED <<ng_config, searchVars, resultVars, supervisorVars, helperVars>>

PlannerInit ==
    /\ config = DefaultConfig
    /\ SupervisorInit
    /\ HelperIdle
    /\ ng_config \in PlannerConfigs
    /\ phase = "plan"
    /\ queries = <<>>
    /\ tool_methods = 0
    /\ SearchIdle

NextQueries == BuildQueries

SpecQueries == PlannerInit /\ [][NextQueries]_vars

\* ------------------------------------- news_gatherer.py: the source client
\* per_query_k and the floor of hard_cap in gather_news.
PerQueryK == 5
HardCapFloor == 80

\* A result as a search payload or a feed entry carries it; "" is a missing
\* or null field.
RawItem(title, url, snippet, source, published_at) ==
    [title |-> title, url |-> url, snippet |-> snippet, source |-> source,
     published_at |-> published_at]

Alpha == RawItem("Alpha", "https://a.org/1", "first", "a.org", "2024-01-10")
AlphaSpaced == RawItem("Alpha ", "https://a.org/1 ", "", "", "")
AlphaAgain == RawItem("Alpha again", "https://a.org/1", "", "", "")
BetaSummit == RawItem("Beta summit", "https://b.org/2", "", "", "")
Untitled == RawItem("", "https://c.org/3", "text", "c.org", "2024-01-11")
Old == RawItem("Old", "https://d.org/4", "", "d.org", "2023-12-01")
NoDomain == RawItem("Gamma", "c/3", "", "", "")
FeedEntry == RawItem("Alpha again", "https://a.org/1", "",
                     "", "Fri, 12 Jan 2024 08:00:00 GMT")

\* str.strip() on the texts above.
Strip(t) ==
    CASE t = "Alpha " -> "Alpha"
      [] t = "https://a.org/1 " -> "https://a.org/1"
      [] t = " " -> ""
      [] OTHER -> t

\* _domain(url): the host of the url, "" when it has none.
Domain(url) ==
    CASE url \in {"https://a.org/1", "https://a.org/1 "} -> "a.org"
      [] url = "https://b.org/2" -> "b.org"
      [] url = "https://c.org/3" -> "c.org"
      [] url = "https://d.org/4" -> "d.org"
      [] OTHER -> ""

\* _clean_text(text): markup removed, whitespace collapsed and stripped;
\* "" stands for None.
CleanText(t) ==
    CASE t = "<b>Gamma</b>" -> "Gamma"
      [] OTHER -> Strip(t)

\* _to_iso(parsedate_to_datetime(pubDate)), "" when it cannot be parsed.
RssDate(pub_txt) ==
    CASE pub_txt = "Fri, 12 Jan 2024 08:00:00 GMT" -> "2024-01-12T08:00:00+00:00"
      [] OTHER -> ""

\* What one call of the search tool can do: raise (the call shape is not
\* supported, or the search failed) or return None, a list, a mapping with
\* a list of results, or a single result.
PrimaryOutcomes ==
    { [label |-> "raises", payload |-> NoneV],
      [label |-> "none", payload |-> NoneV],
      [label |-> "empty_list", payload |-> ListV(<<>>)],
      [label |-> "empty_results", payload |-> DictV([results |-> ListV(<<>>)])],
      [label |-> "list", payload |-> ListV(<<Alpha, BetaSummit, AlphaSpaced>>)],
      [label |-> "results",
       payload |-> DictV([results |-> ListV(<<AlphaAgain, Untitled, Old>>)])],
      [label |-> "single", payload |-> DictV(NoDomain)] }

\* What the feed endpoint can do: fail (HTTP error, timeout, malformed XML)
\* or return a document with these entries.
FeedOutcomes ==
    { [label |-> "error", entries |-> <<>>],
      [label |-> "returned", entries |-> <<>>],
      [label |-> "returned", entries |-> <<Old, Untitled, FeedEntry>>] }

PayloadKeys == <<"results", "items", "data", "output", "payload">>

\* Variant: a single result is not taken for a result list.
normalize_payload_no_single(payload) ==
    CASE payload.kind = "None" -> NoneV
      [] payload.kind = "list" -> payload
      [] payload.kind = "dict" ->
            LET found == SelectSeq(PayloadKeys, LAMBDA k :
                            /\ k \in DOMAIN payload.items
                            /\ payload.items[k].kind = "list")
            IN IF found # <<>> THEN payload.items[Head(found)] ELSE NoneV
      [] OTHER -> NoneV

\* normalize_payload of _call_google_adk_search, on None, lists and mappings.
normalize_payload(payload) ==
    CASE payload.kind = "None" -> NoneV
      [] payload.kind = "list" -> payload
      [] payload.kind = "dict" ->
            LET found == SelectSeq(PayloadKeys, LAMBDA k :
                            /\ k \in DOMAIN payload.items
                            /\ payload.items[k].kind = "list")
            IN IF found # <<>> THEN payload.items[Head(found)]
               ELSE ListV(<<payload.items>>)
      [] OTHER -> NoneV

\* Number of call shapes tried: three on the tool itself and four on each
\* callable method found among __call__, run, invoke, execute, search.
NumCalls == 3 + 4 * tool_methods

\* The items of the feed document, at most `limit` of them (the loop leaves
\* once it has appended the limit-th item).
rss_items(entries, limit) ==
    LET items == [i \in 1..Len(entries) |->
                    [title |-> CleanText(Strip(entries[i].title)),
                     url |-> Strip(entries[i].url),
                     snippet |-> CleanText(entries[i].snippet),
                     published_at |-> RssDate(entries[i].published_at),
                     source |-> Domain(Strip(entries[i].url))]]
        valid == SelectSeq(items, LAMBDA it : it.url # "" /\ it.title # "")
    IN Take(valid, IF limit < 1 THEN 1 ELSE limit)

\* _search_candidates: `for q in queries`, the next query is handed to
\* _call_google_adk_search, which builds its call shapes.
StartQuery ==
    /\ phase = "search"
    /\ qi <= Len(queries)
    /\ ci' = 1
    /\ res' = NoneV
    /\ tally' = NoTally
    /\ feed' = "not_called"
    /\ phase' = "primary"
    /\ UNCHANGED <<ng_config, queries, tool_methods, qi, all_items, seen_urls,
                   resultVars, supervisorVars, helperVars>>

\* One turn of `for fn, kwargs in calls`: the call raises, or returns a
\* payload that normalizes to nothing, and the loop goes on; or it returns a
\* payload that normalizes to a non-empty list, which is returned.
PrimaryCall ==
    /\ phase = "primary"
    /\ ci <= NumCalls
    /\ \E o \in PrimaryOutcomes :
        /\ tally' = [tally EXCEPT ![o.label] = @ + 1]
        /\ IF o.label # "raises" /\ Truthy(normalize_payload(o.payload))
           THEN /\ res' = normalize_payload(o.payload)
                /\ phase' = "collect"
                /\ UNCHANGED ci
           ELSE /\ ci' = ci + 1
                /\ UNCHANGED <<res, phase>>
    /\ UNCHANGED <<ng_config, queries, tool_methods, qi, all_items, seen_urls,
                   feed, resultVars, supervisorVars, helperVars>>

\* The call shapes are used up: `return None`, and `if res is None` in
\* _search_candidates turns to the feed.
PrimaryExhausted ==
    /\ phase = "primary"
    /\ ci > NumCalls
    /\ res' = NoneV
    /\ phase' = "feed"
    /\ UNCHANGED <<ng_config, queries, tool_methods, qi, ci, all_items,
                   seen_urls, tally, feed, resultVars, supervisorVars, helperVars>>

\* Variant: a failure of the feed leaves gather_news as an exception.
FetchGoogleNewsRss_raises ==
    /\ phase = "feed"
    /\ \E o \in FeedOutcomes :
        /\ feed' = o.label
        /\ IF o.label = "error"
           THEN phase' = "raised" /\ UNCHANGED res
           ELSE /\ res' = ListV(rss_items(o.entries, PerQueryK))
                /\ phase' = "collect"
    /\ UNCHANGED <<ng_config, queries, tool_methods, qi, ci, all_items,
                   seen_urls, tally, resultVars, supervisorVars, helperVars>>

\* _fetch_google_news_rss(q, language, country_focus, limit=per_query_k).
FetchGoogleNewsRss ==
    /\ phase = "feed"
    /\ \E o \in FeedOutcomes :
        /\ feed' = o.label
        /\ res' = IF o.label = "error" THEN ListV(<<>>)
                  ELSE ListV(rss_items(o.entries, PerQueryK))
    /\ phase' = "collect"
    /\ UNCHANGED <<ng_config, queries, tool_methods, qi, ci, all_items,
                   seen_urls, tally, resultVars, supervisorVars, helperVars>>

\* ------------------------------ news_gatherer.py: candidates and gather_news
\* The texts in which the type inference of _normalize_search_item finds one
\* of conference, summit, webinar, hearing, workshop, meetup.
EventTitles == {"Beta summit"}

\* Variant: the last alias that has a value is taken.
pick_last(d, keys) ==
    LET found == SelectSeq(keys, LAMBDA k : k \in DOMAIN d /\ d[k] # "")
    IN IF found = <<>> THEN "" ELSE d[found[Len(found)]]

\* pick(d, *keys): the value of the first key that the mapping holds with a
\* truthy value, "" for None.
pick(d, keys) ==
    LET found == SelectSeq(keys, LAMBDA k : k \in DOMAIN d /\ d[k] # "")
    IN IF found = <<>> THEN "" ELSE d[Head(found)]

\* _normalize_search_item(obj), for a mapping; the topics and the relevance
\* reason _search_candidates adds to the record are annotations that no step
\* reads and are not represented.
normalize_search_item(obj) ==
    LET title == CleanText(pick(obj, <<"title", "name", "headline">>))
        url == pick(obj, <<"url", "link", "href">>)
        snippet == CleanText(pick(obj, <<"snippet", "description", "summary">>))
        source == pick(obj, <<"source", "publisher", "domain">>)
        published == pick(obj, <<"published_at", "date", "published",
                                 "published_time", "time">>)
    IN IF url = "" \/ title = "" THEN NoneV
       ELSE [title |-> title,
             url |-> url,
             source |-> IF source = "" THEN Domain(url) ELSE source,
             summary |-> snippet,
             type |-> IF title \in EventTitles THEN "event" ELSE "news",
             published_at |-> published]

\* Variant: no url counts as collected before.
UrlSeen_never(u, seen) == FALSE

\* `if u in seen_urls` of _search_candidates.
UrlSeen(u, seen) == u \in seen

\* `for r in res or []` of _search_candidates.
RECURSIVE CollectLoop(_, _, _)
CollectLoop(rs, items, seen) ==
    IF rs = <<>> THEN [items |-> items, seen |-> seen]
    ELSE LET norm == normalize_search_item(Head(rs)) IN
         IF norm = NoneV \/ UrlSeen(norm.url, seen)
         THEN CollectLoop(Tail(rs), items, seen)
         ELSE CollectLoop(Tail(rs), Append(items, norm), seen \cup {norm.url})

\* A summary that is None (or a record without the key), which
\* _validate_items_local tells from the empty string.
NoneText == "<None>"

\* `it.get("source") or _domain(url or "")`
SourceOf(it) == IF it.source # "" THEN it.source ELSE Domain(it.url)

\* Variant: a record needs a summary as well.
HasRequired_needs_summary(it) ==
    it.url # "" /\ it.title # "" /\ SourceOf(it) # ""
    /\ it.summary \notin {"", NoneText}

\* `url and title and source`
HasRequired(it) == it.url # "" /\ it.title # "" /\ SourceOf(it) # ""

\* Variant: records are told apart by their url alone.
ValidateKey_url_only(it) == <<Strip(it.url)>>

\* `key = (url.strip(), title.strip())`
ValidateKey(it) == <<Strip(it.url), Strip(it.title)>>

\* Variant: the records are told apart by their url and title as given, and
\* the url is stored stripped.
validate_items_local_strips_after(items) ==
    LET kept == SelectSeq([i \in 1..Len(items) |-> i], LAMBDA i :
                    /\ HasRequired(items[i])
                    /\ \A j \in 1..(i - 1) :
                          ~ ( /\ HasRequired(items[j])
                              /\ items[j].url = items[i].url
                              /\ items[j].title = items[i].title ))
    IN [n \in 1..Len(kept) |->
          [items[kept[n]] EXCEPT
              !.url = Strip(@),
              !.source = SourceOf(items[kept[n]]),
              !.summary = IF @ \in {"", NoneText} THEN "" ELSE @]]

\* _validate_items_local(items): `seen` holds the keys of the records kept
\* so far, so a record is kept when it has the required fields and no
\* earlier record with the required fields has its key.
validate_items_local(items) ==
    LET kept == SelectSeq([i \in 1..Len(items) |-> i], LAMBDA i :
                    /\ HasRequired(items[i])
                    /\ \A j \in 1..(i - 1) :
                          ~ ( /\ HasRequired(items[j])
                              /\ ValidateKey(items[j]) = ValidateKey(items[i]) ))
    IN [n \in 1..Len(kept) |->
          [items[kept[n]] EXCEPT
              !.source = SourceOf(items[kept[n]]),
              !.summary = IF @ \in {"", NoneText} THEN "" ELSE @]]

\* hard_cap=max(80, config.max_results * 6)
HardCap(max_results) ==
    IF max_results * 6 > HardCapFloor THEN max_results * 6 ELSE HardCapFloor

\* The rest of the loop body for one query: the results are normalized and
\* collected, then the hard cap is tested; past the cap the loop is left and
\* the collected records are validated.
Collect ==
    /\ phase = "collect"
    /\ LET got == CollectLoop(IF Truthy(res) THEN res.elems ELSE <<>>,
                              all_items, seen_urls)
       IN /\ all_items' = got.items
          /\ seen_urls' = got.seen
          /\ IF Len(got.items) >= HardCap(ng_config.max_results)
             THEN /\ candidates' = validate_items_local(got.items)
                  /\ phase' = "filter"
                  /\ UNCHANGED qi
             ELSE /\ qi' = qi + 1
                  /\ phase' = "search"
                  /\ UNCHANGED candidates
    /\ UNCHANGED <<ng_config, queries, tool_methods, ci, res, tally, feed,
                   filtered, enriched, supervisorVars, helperVars>>

\* The queries are used up: the collected records are validated.
QueriesExhausted ==
    /\ phase = "search"
    /\ qi > Len(queries)
    /\ candidates' = validate_items_local(all_items)
    /\ phase' = "filter"
    /\ UNCHANGED <<ng_config, queries, searchVars, filtered, enriched,
                   supervisorVars, helperVars>>

\* The date texts of the model in lexicographic order.
DateTexts ==
    <<"", "2023-12-01", "2024-01-01", "2024-01-09", "2024-01-10", "2024-01-11",
      "2024-01-12T08:00:00+00:00", "yesterday">>

\* Place of a text in the lexicographic order of str.
TextRank(t) == CHOOSE i \in 1..Len(DateTexts) : DateTexts[i] = t

\* datetime.fromisoformat(text).date() as the number yyyymmdd, 0 when the
\* text cannot be parsed.
IsoDate(t) ==
    CASE t = "2023-12-01" -> 20231201
      [] t = "2024-01-01" -> 20240101
      [] t = "2024-01-09" -> 20240109
      [] t = "2024-01-10" -> 20240110
      [] t = "2024-01-11" -> 20240111
      [] t = "2024-01-12T08:00:00+00:00" -> 20240112
      [] OTHER -> 0

\* Variant: a record without a date is dropped too.
KeepInWindow_drops_undated(it, start_date_iso) ==
    /\ it.published_at # ""
    /\ ~ ( /\ IsoDate(start_date_iso) # 0
            /\ IsoDate(it.published_at) # 0
            /\ IsoDate(it.published_at) < IsoDate(start_date_iso) )

\* "Time filter": a record is dropped when its date parses and is before the
\* cutoff.
KeepInWindow(it, start_date_iso) ==
    ~ ( /\ it.published_at # ""
        /\ IsoDate(start_date_iso) # 0
        /\ IsoDate(it.published_at) # 0
        /\ IsoDate(it.published_at) < IsoDate(start_date_iso) )

\* Variant: the later date comes first.
SortKeyLess_descending(x, y) ==
    LET fx == IF x.published_at # "" THEN 0 ELSE 1
        fy == IF y.published_at # "" THEN 0 ELSE 1
    IN \/ fx < fy
       \/ fx = fy /\ TextRank(x.published_at) > TextRank(y.published_at)

\* sort_key(x) < sort_key(y)
SortKeyLess(x, y) ==
    LET fx == IF x.published_at # "" THEN 0 ELSE 1
        fy == IF y.published_at # "" THEN 0 ELSE 1
    IN \/ fx < fy
       \/ fx = fy /\ TextRank(x.published_at) < TextRank(y.published_at)

\* list.sort(key=sort_key): stable.
SortByKey(items) ==
    LET Before(j, i) == \/ SortKeyLess(items[j], items[i])
                        \/ ~SortKeyLess(items[i], items[j]) /\ j < i
        Place(i) == 1 + Cardinality({j \in 1..Len(items) : Before(j, i)})
    IN [n \in 1..Len(items) |->
          items[CHOOSE i \in 1..Len(items) : Place(i) = n]]

\* gather_news, lines 586-611.
FilterAndSort ==
    /\ phase = "filter"
    /\ filtered' = SortByKey(SelectSeq(candidates,
                       LAMBDA it : KeepInWindow(it, ng_config.start_date_iso)))
    /\ phase' = "enrich"
    /\ UNCHANGED <<ng_config, queries, searchVars, candidates, enriched,
                   supervisorVars, helperVars>>

\* ------------------------------------------------ scraping.py: scrape_url
\* What the extractor found in a downloaded page, and what the meta tags of
\* the page fetched again hold; the dates are as _normalize_date returns them.
NoArticle == [text |-> "", title |-> "", date |-> "", authors |-> ""]

\* How the two fetches of a page can go.  fetch: trafilatura.fetch_url raises,
\* returns None or returns the page; get: requests.get raises (timeout,
\* connection error), answers with an error status, or answers the page.
Pages ==
    { [fetch |-> "raises", article |-> NoArticle,
       get |-> "raises", meta |-> [title |-> "", date |-> ""]],
      [fetch |-> "none", article |-> NoArticle,
       get |-> "not_ok", meta |-> [title |-> "", date |-> ""]],
      [fetch |-> "html", article |-> NoArticle,
       get |-> "raises", meta |-> [title |-> "", date |-> ""]],
      [fetch |-> "html",
       article |-> [text |-> "body", title |-> "Page title",
                    date |-> "2024-01-09", authors |-> "Ann"],
       get |-> "html", meta |-> [title |-> "Meta title", date |-> "2023-12-01"]],
      [fetch |-> "none", article |-> NoArticle,
       get |-> "html", meta |-> [title |-> "Page title", date |-> "2024-01-09"]] }

\* scrape_url(url) on a page.
scrape_url(page) ==
    LET article == IF page.fetch = "html" THEN page.article ELSE NoArticle
        again == (article.title = "" \/ article.date = "") /\ page.get = "html"
    IN [text |-> article.text,
        title |-> IF article.title = "" /\ again THEN page.meta.title
                  ELSE article.title,
        published_at |-> IF article.date = "" /\ again THEN page.meta.date
                         ELSE article.date,
        authors |-> article.authors]

\* What scrape_url can return.
ScrapeOutcomes == {scrape_url(page) : page \in Pages}

\* item.get(key) on a record, "" for None or a missing key.
ItemGet(d, key) == IF key \in DOMAIN d THEN d[key] ELSE ""

\* Variant: what the page yields replaces what the record holds.
EnrichedItem_page_first(item, scraped) ==
    [title |-> IF scraped.title # "" THEN scraped.title ELSE item.title,
     url |-> item.url,
     source |-> IF item.source # "" THEN item.source ELSE Domain(item.url),
     summary |-> IF item.summary # "" THEN item.summary ELSE scraped.text,
     type |-> IF item.type # "" THEN item.type ELSE "news",
     published_at |-> IF scraped.published_at # "" THEN scraped.published_at
                      ELSE item.published_at,
     author |-> IF scraped.authors # "" THEN scraped.authors
                ELSE ItemGet(item, "author"),
     scraped_text |-> scraped.text,
     scraped_title |-> scraped.title]

\* `enriched_item` of gather_news; "" stands for None where a field is empty.
EnrichedItem(item, scraped) ==
    [title |-> IF item.title # "" THEN item.title ELSE scraped.title,
     url |-> item.url,
     source |-> IF item.source # "" THEN item.source ELSE Domain(item.url),
     summary |-> IF item.summary # "" THEN item.summary ELSE scraped.text,
     type |-> IF item.type # "" THEN item.type ELSE "news",
     published_at |-> IF item.published_at # "" THEN item.published_at
                      ELSE scraped.published_at,
     author |-> IF ItemGet(item, "author") # "" THEN ItemGet(item, "author")
                ELSE scraped.authors,
     scraped_text |-> scraped.text,
     scraped_title |-> scraped.title]

\* The loop "Enrich via scraping": scrapes[n] is what the n-th call of
\* scrape_url returns; the loop is left once the record just appended makes
\* max_results records.
RECURSIVE EnrichLoop(_, _, _, _, _, _)
EnrichLoop(items, scrapes, i, out, seen, max_results) ==
    IF i > Len(items) THEN out
    ELSE IF items[i].url = "" \/ items[i].url \in seen
         THEN EnrichLoop(items, scrapes, i + 1, out, seen, max_results)
         ELSE LET appended ==
                    Append(out, EnrichedItem(items[i], scrapes[Len(out) + 1]))
              IN IF Len(appended) >= max_results THEN appended
                 ELSE EnrichLoop(items, scrapes, i + 1, appended,
                                 seen \cup {items[i].url}, max_results)

\* How many pages the loop scrapes: one for each url of the records, until
\* the break.
NumScrapes(items, max_results) ==
    LET urls == Cardinality({items[i].url : i \in 1..Len(items)} \ {""})
        most == IF max_results < 1 THEN 1 ELSE max_results
    IN IF urls < most THEN urls ELSE most

\* Variant: a page that cannot be fetched ends gather_news with an exception.
Enrich_scrape_raises ==
    /\ phase = "enrich"
    /\ \E scrapes \in [1..NumScrapes(filtered, ng_config.max_results)
                          -> ScrapeOutcomes] :
          IF \E n \in DOMAIN scrapes, page \in Pages :
                page.fetch = "raises" /\ scrapes[n] = scrape_url(page)
          THEN phase' = "raised" /\ UNCHANGED enriched
          ELSE /\ enriched' = EnrichLoop(filtered, scrapes, 1, <<>>, {},
                                         ng_config.max_results)
               /\ phase' = "returned"
    /\ UNCHANGED <<ng_config, queries, searchVars, candidates, filtered,
                   supervisorVars, helperVars>>

\* gather_news, lines 613-644.
Enrich ==
    /\ phase = "enrich"
    /\ \E scrapes \in [1..NumScrapes(filtered, ng_config.max_results)
                          -> ScrapeOutcomes] :
          enriched' = EnrichLoop(filtered, scrapes, 1, <<>>, {},
                                 ng_config.max_results)
    /\ phase' = "returned"
    /\ UNCHANGED <<ng_config, queries, searchVars, candidates, filtered,
                   supervisorVars, helperVars>>

\* Configurations gather_news is run on.
GatherConfigs ==
    [keywords : {<<>>},
     source_domains : {<<>>},
     resource_links : NameLists("https://site", MaxLinks),
     start_date_iso : {"2024-01-01"},
     max_results : 0..MaxResults]

GatherInit ==
    /\ config = DefaultConfig
    /\ SupervisorInit
    /\ HelperIdle
    /\ ng_config \in GatherConfigs
    /\ phase = "plan"
    /\ queries = <<>>
    /\ tool_methods \in 0..MaxMethods
    /\ SearchIdle

NextGather ==
    \/ BuildQueries
    \/ StartQuery
    \/ PrimaryCall
    \/ PrimaryExhausted
    \/ FetchGoogleNewsRss
    \/ Collect
    \/ QueriesExhausted
    \/ FilterAndSort
    \/ Enrich

SpecGather == GatherInit /\ [][NextGather]_vars

\* --------------- news_gatherer.py: validation, filter and enrichment of any
\* records.  _validate_items_local takes any list of records, also records
\* that _normalize_search_item would not produce.
Record(title, url, source, summary, published_at, author) ==
    [title |-> title, url |-> url, source |-> source, summary |-> summary,
     type |-> "news", published_at |-> published_at, author |-> author]

RecordUniverse ==
    { Record("Alpha", "https://a.org/1", "a.org", "first", "2024-01-10", "Bo"),
      Record("Alpha", "https://a.org/1", "a.org", "second", "", ""),
      Record("Alpha", "https://a.org/1 ", "", "", "", ""),
      Record("Alpha again", "https://a.org/1", "a.org", NoneText,
             "2024-01-11", ""),
      Record("", "https://b.org/2", "b.org", "text", "", ""),
      Record("Beta", "", "b.org", "text", "", ""),
      Record("Beta summit", "https://b.org/2", "", NoneText, "yesterday", ""),
      Record("Gamma", "c/3", "", "", "", ""),
      Record("Old", "https://d.org/4", "d.org", "", "2023-12-01", "") }


\* The cutoff is a date, or a text datetime.fromisoformat rejects.
RecordConfigs ==
    [keywords : {<<>>},
     source_domains : {<<>>},
     resource_links : {<<>>},
     start_date_iso : {"2024-01-01", "soon"},
     max_results : 0..MaxResults]

\* `return _validate_items_local(all_items)`
ValidateItemsLocal ==
    /\ phase = "validate"
    /\ candidates' = validate_items_local(all_items)
    /\ phase' = "filter"
    /\ UNCHANGED <<ng_config, queries, searchVars, filtered, enriched,
                   supervisorVars, helperVars>>

RecordsInit ==
    /\ config = DefaultConfig
    /\ SupervisorInit
    /\ HelperIdle
    /\ ng_config \in RecordConfigs
    /\ phase = "validate"
    /\ queries = <<>>
    /\ tool_methods = 0
    /\ qi = 1
    /\ ci = 1
    /\ res = NoneV
    /\ all_items \in UNION {[1..n -> RecordUniverse] : n \in 0..MaxItems}
    /\ seen_urls = {}
    /\ tally = NoTally
    /\ feed = "not_called"
    /\ candidates = <<>>
    /\ filtered = <<>>
    /\ enriched = <<>>

NextRecords ==
    \/ ValidateItemsLocal
    \/ FilterAndSort
    \/ Enrich

SpecRecords == RecordsInit /\ [][NextRecords]_vars

\* ------------------- news_gatherer.py: normalization of any search result
\* Results as the sources shape them: each field under any of its aliases,
\* "" for an alias that is missing, None or empty.
RawObjects ==
    [title : {"", " ", "Alpha"}, name : {"", "Beta summit"},
     headline : {"", "<b>Gamma</b>"},
     url : {"", "https://a.org/1"}, link : {"", "https://b.org/2"},
     href : {"", "c/3"},
     snippet : {"", "first"}, description : {"", "text"},
     source : {"", "a.org"}, publisher : {"", "Press"},
     published_at : {""}, date : {"", "2024-01-10"}]

\* _search_candidates has got one result for its only query.
NormalizeInit ==
    /\ config = DefaultConfig
    /\ SupervisorInit
    /\ HelperIdle
    /\ ng_config = [NoGatherConfig EXCEPT !.resource_links = <<"https://site1">>]
    /\ queries = build_queries(ng_config)
    /\ tool_methods = 0
    /\ phase = "collect"
    /\ qi = 1
    /\ ci = 1
    /\ \E obj \in RawObjects : res = ListV(<<obj>>)
    /\ all_items = <<>>
    /\ seen_urls = {}
    /\ tally = [NoTally EXCEPT !["list"] = 1]
    /\ feed = "not_called"
    /\ candidates = <<>>
    /\ filtered = <<>>
    /\ enriched = <<>>

NextNormalize == Collect

SpecNormalize == NormalizeInit /\ [][NextNormalize]_vars

\* ------------------ news_gatherer.py: _search_candidates close to the cap
\* A long result list: the search tool is asked for k results and returns as
\* many as it likes.
BulkResult(n) ==
    [i \in 1..n |-> RawItem("Bulk", "https://bulk.org/" \o ToString(i), "",
                             "bulk.org", "")]

\* max_results below and above the value from which max_results * 6 is the
\* cap.
CapConfigs ==
    [keywords : {<<>>},
     source_domains : {<<>>},
     resource_links : {NameList("https://site", 3, 3)},
     start_date_iso : {"2024-01-01"},
     max_results : {0, 14}]

\* _search_candidates after its first query, which brought a long list,
\* one to three records short of the cap.
CapInit ==
    /\ config = DefaultConfig
    /\ SupervisorInit
    /\ HelperIdle
    /\ ng_config \in CapConfigs
    /\ queries = build_queries(ng_config)
    /\ tool_methods = 0
    /\ phase = "search"
    /\ qi = 2
    /\ ci = 1
    /\ \E short \in 1..3 :
          LET bulk == BulkResult(HardCap(ng_config.max_results) - short) IN
          /\ res = ListV(bulk)
          /\ all_items = [i \in 1..Len(bulk) |-> normalize_search_item(bulk[i])]
          /\ seen_urls = {bulk[i].url : i \in 1..Len(bulk)}
    /\ tally = [NoTally EXCEPT !["list"] = 1]
    /\ feed = "not_called"
    /\ candidates = <<>>
    /\ filtered = <<>>
    /\ enriched = <<>>

NextCap ==
    \/ StartQuery
    \/ PrimaryCall
    \/ PrimaryExhausted
    \/ FetchGoogleNewsRss
    \/ Collect
    \/ QueriesExhausted

SpecCap == CapInit /\ [][NextCap]_vars

\* --------------------------------------------- scraping.py: _normalize_date
\* A date text by its parts.  layout: "dash" 2024-01-15, "slash" 2024/01/15,
\* "dmy" 15 Jan 2024, "mdy" Jan 15, 2024, "word" any other text; month and
\* day are the numbers written (a month outside 1..12 in "dmy" and "mdy" is
\* a word that names no month); padded: month and day are written with two
\* digits; tail: what follows the day.
DateText(layout, year, month, day, padded, tail) ==
    [layout |-> layout, year |-> year, month |-> month, day |-> day,
     padded |-> padded, tail |-> tail]

DateInputs ==
    {EmptyText, DateText("word", 0, 0, 0, FALSE, "")} \cup
    { DateText(layout, 2024, month, day, padded, tail) :
        layout \in {"dash", "slash", "dmy", "mdy"},
        month \in {0, 1, 2, 4, 12, 13},
        day \in {0, 1, 15, 29, 30, 31, 32},
        padded \in BOOLEAN,
        tail \in {"", "T10:30:00Z", " extra"} }

\* A date of the calendar of datetime.
IsCalendarDate(year, month, day) ==
    LET days == CASE month = 2 ->
                       IF year % 4 = 0 /\ (year % 100 # 0 \/ year % 400 = 0)
                       THEN 29 ELSE 28
                  [] month \in {4, 6, 9, 11} -> 30
                  [] OTHER -> 31
    IN month \in 1..12 /\ day \in 1..days

\* ISO_DATE_RE.match(dt_str.strip()[:10]): four digits, dash, two digits,
\* dash, two digits.
LooksIso(text) == text.layout = "dash" /\ text.padded

\* The formats tried in order, each as (layout, tail it reads, tail of the
\* isoformat() of what it read).  %z reads the Z.
DateFormats ==
    << [layout |-> "dash", tail |-> "", iso |-> "T00:00:00"],
       [layout |-> "slash", tail |-> "", iso |-> "T00:00:00"],
       [layout |-> "dmy", tail |-> "", iso |-> "T00:00:00"],
       [layout |-> "mdy", tail |-> "", iso |-> "T00:00:00"],
       [layout |-> "dash", tail |-> "T10:30:00Z", iso |-> "T10:30:00+00:00"],
       [layout |-> "dash", tail |-> "T10:30:00Z", iso |-> "T10:30:00"] >>

\* datetime.strptime(text, fmt) does not raise.
Strptime(text, fmt) ==
    /\ text.layout = fmt.layout
    /\ text.tail = fmt.tail
    /\ IsCalendarDate(text.year, text.month, text.day)

\* _normalize_date(dt_str); NoneV for None.
normalize_date(text) ==
    IF text = EmptyText THEN NoneV
    ELSE IF LooksIso(text) THEN text
    ELSE LET read == SelectSeq(DateFormats, LAMBDA fmt : Strptime(text, fmt))
         IN IF read = <<>> THEN NoneV
            ELSE DateText("dash", text.year, text.month, text.day, TRUE,
                          Head(read).iso)

NormalizeDate ==
    /\ date_ret = NoRet
    /\ date_ret' = Returned(normalize_date(dt_str))
    /\ UNCHANGED <<dt_str, final_payload, session_state, runner_ret,
                   ng_config, phase, queries, searchVars, resultVars,
                   supervisorVars>>

DatesInit ==
    /\ config = DefaultConfig
    /\ SupervisorInit
    /\ GatherIdle
    /\ dt_str \in DateInputs
    /\ date_ret = NoRet
    /\ final_payload = NoneV
    /\ session_state = NoneV
    /\ runner_ret = NoRet

NextDates == NormalizeDate

SpecDates == DatesInit /\ [][NextDates]_vars

\* ------------------------------- agent_runner.py: run_agent_with_runner
DEFAULT_RESULT_KEYS ==
    <<"generated_content", "social_media_report", "curated_content",
      "final_content", "blog_post", "news_summaries", "gathered_posts",
      "gathered_news", "analysis", "output", "result", "response">>

\* A text that json.loads reads as `parsed`.
JsonText(parsed) == [kind |-> "str", val |-> <<"json">>, parsed |-> parsed]

\* Mappings with some of the keys below; `draft` and `timestamp` are no
\* result keys.
Mappings(keys) ==
    {DictV([k \in ks |-> <<k>>]) : ks \in SUBSET keys}

\* What _extract_payload_from_event gives for the final event: None, a text
\* (plain, or JSON for a mapping or for a list), an object that is neither
\* a mapping nor a text, or a non-empty mapping (state_delta, outputs).
FinalPayloads ==
    LET keys == {"generated_content", "blog_post", "output", "draft"} IN
    {NoneV, StrV(<<"text">>), JsonText(ListV(<<"item">>)),
     [kind |-> "object", val |-> <<"repr">>]}
    \cup (Mappings(keys) \ {DictV(<<>>)})
    \cup {JsonText(d) : d \in Mappings(keys)}

\* The session after the run: none, or its state, which holds the timestamp
\* of base_state and what the agent stored under its output key.
SessionStates ==
    {NoneV} \cup {DictV([k \in ks \cup {"timestamp"} |-> <<k>>]) :
                    ks \in SUBSET {"final_content", "draft"}}

\* `for key in result_keys: if key in d: return {key: d[key]}`
FirstResultKey(d, result_keys) ==
    SelectSeq(result_keys, LAMBDA k : k \in DOMAIN d.items)

\* _normalize_response_payload on a mapping.
NormalizeMapping(d, result_keys) ==
    LET found == FirstResultKey(d, result_keys) IN
    IF found # <<>>
    THEN DictV([k \in {Head(found)} |-> d.items[k]])
    ELSE d

\* _normalize_response_payload(payload, result_keys)
normalize_response_payload(p, result_keys) ==
    CASE p.kind = "dict" -> NormalizeMapping(p, result_keys)
      [] p.kind = "str" ->
            IF "parsed" \in DOMAIN p /\ p.parsed.kind = "dict"
            THEN NormalizeMapping(p.parsed, result_keys)
            ELSE DictV([k \in {"output"} |-> p.val])
      [] OTHER -> DictV([k \in {"output"} |-> p.val])

\* run_agent_with_runner from `final_response = {}` on: the final event's
\* payload is normalized; if that gives nothing the session state is probed
\* for the result keys; a non-empty mapping is returned, else RuntimeError.
RunAgentWithRunner ==
    /\ runner_ret = NoRet
    /\ LET first == IF final_payload # NoneV
                    THEN normalize_response_payload(final_payload,
                                                    DEFAULT_RESULT_KEYS)
                    ELSE DictV(<<>>)
           probed == IF session_state # NoneV /\ Truthy(session_state)
                     THEN LET found == FirstResultKey(session_state,
                                                      DEFAULT_RESULT_KEYS)
                          IN IF found # <<>>
                             THEN DictV([k \in {Head(found)} |->
                                            session_state.items[k]])
                             ELSE DictV([k \in {"session_state"} |->
                                            <<"state">>])
                     ELSE DictV(<<>>)
           final_response == IF Truthy(first) THEN first ELSE probed
       IN runner_ret' = IF Truthy(final_response) THEN Returned(final_response)
                        ELSE Raised
    /\ UNCHANGED <<dt_str, date_ret, final_payload, session_state,
                   ng_config, phase, queries, searchVars, resultVars,
                   supervisorVars>>

RunnerInit ==
    /\ config = DefaultConfig
    /\ SupervisorInit
    /\ GatherIdle
    /\ dt_str = EmptyText
    /\ date_ret = NoRet
    /\ final_payload \in FinalPayloads
    /\ session_state \in SessionStates
    /\ runner_ret = NoRet

NextRunner == RunAgentWithRunner

SpecRunner == RunnerInit /\ [][NextRunner]_vars

\* ------------------------------------------------------------------ claims
AgentSteps == {"news_gathering", "social_media_monitoring", "content_generation"}

StepStatus(s) == workflow_state.steps[s].status

Last(seq) == seq[Len(seq)]

\* The message matches one of the non-retriable keywords, whatever its case.
IsNonRetriableMessage(e) ==
    \E i \in 1..Len(e) : Lower(e[i]) \in NonRetriableErrors

\* The attempt raised an error that is retriable.
IsRetriableFailure(o) == o.kind = "raised" /\ ~IsNonRetriableMessage(o.error)

\* The step was run during the current operation and ended as given.
Succeeded(s) == s \in started /\ StepStatus(s) = "success"
FailedNow(s) == s \in started /\ StepStatus(s) = "failed"

\* C1: when a call of execute_with_retry has left after k retriable failures
\* followed by a success on attempt k+1, it returned that attempt's result,
\* the step is success with attempts = k+1, and exactly k backoff sleeps
\* were made, the i-th lasting retry_delay * 2^(i-1).
C1_RetryThenSuccess ==
    ( /\ pc = "returned"
      /\ outcomes # <<>>
      /\ Last(outcomes).kind = "returned"
      /\ \A i \in 1..(Len(outcomes) - 1) : IsRetriableFailure(outcomes[i]) )
    => LET k == Len(outcomes) - 1 IN
       /\ ret = Returned(Last(outcomes).value)
       /\ StepStatus(call.step_name) = "success"
       /\ workflow_state.steps[call.step_name].attempts = k + 1
       /\ Len(sleeps) = k
       /\ \A i \in 1..k : sleeps[i] = config.retry_delay * (2 ^ (i - 1))

\* Two retriable failures, then success on the third of three attempts.
C1_Witness ==
    /\ pc = "returned"
    /\ Len(outcomes) = 3
    /\ IsRetriableFailure(outcomes[1])
    /\ IsRetriableFailure(outcomes[2])
    /\ outcomes[3].kind = "returned"
    /\ config.max_retries = 3
    /\ sleeps = <<config.retry_delay, config.retry_delay * 2>>

\* C2: a call whose first attempt raises an error naming 'authentication',
\* 'authorization' or 'invalid_api_key' invokes the step function once only,
\* sleeps never and leaves the step failed, whatever max_retries is.
C2_NonRetriableShortCircuit ==
    ( /\ call.step_name \in AgentSteps
      /\ outcomes # <<>>
      /\ outcomes[1].kind = "raised"
      /\ IsNonRetriableMessage(outcomes[1].error) )
    => /\ Len(outcomes) = 1
       /\ sleeps = <<>>
       /\ pc \notin {"loop", "await"}
       /\ StepStatus(call.step_name) = "failed"
       /\ workflow_state.steps[call.step_name].attempts = 1

\* A non-retriable error on the first of several allowed attempts.
C2_Witness ==
    /\ pc = "returned"
    /\ config.max_retries >= 3
    /\ outcomes = <<[kind |-> "raised", value |-> NoneV,
                     error |-> <<"Invalid_API_Key">>]>>

\* run_workflow has derived the workflow status and is about to compile, or
\* is compiling, the final output.
WorkflowDecided == op = "workflow" /\ pc \in {"compile", "saving", "report"}

\* Position of a step in the declared order.
StepIndex(s) == CHOOSE i \in 1..Len(StepOrder) : StepOrder[i] = s

\* The agent steps declared after step s.
LaterAgentSteps(s) == {t \in AgentSteps : StepIndex(t) > StepIndex(s)}

\* C3: with continue_on_failure enabled, a call that ends on a failed attempt
\* (retries exhausted or non-retriable error) leaves the step failed with the
\* error message and returns None, nothing is ever raised, and a workflow in
\* which a step failed has gone on to every later agent step (started it, or
\* skipped content generation for lack of input).
C3_ContinueOnFailure ==
    config.continue_on_failure =>
       /\ ret.kind # "raised"
       /\ ~aborted
       /\ ( /\ pc = "returned"
            /\ outcomes # <<>>
            /\ Last(outcomes).kind = "raised" )
          => /\ ret = Returned(NoneV)
             /\ StepStatus(call.step_name) = "failed"
             /\ workflow_state.steps[call.step_name].error =
                   <<call.agent_name, "failed:">> \o Last(outcomes).error
       /\ \A s \in AgentSteps :
             (WorkflowDecided /\ FailedNow(s)) =>
                 \A t \in LaterAgentSteps(s) :
                     \/ t \in started
                     \/ t = "content_generation" /\ StepStatus(t) = "skipped"

\* Discovery failed, and social-watch and content generation still ran.
C3_Witness ==
    /\ config.continue_on_failure
    /\ WorkflowDecided
    /\ FailedNow("news_gathering")
    /\ Succeeded("social_media_monitoring")
    /\ Succeeded("content_generation")

\* C4: with continue_on_failure disabled, a terminal step failure raises out
\* of execute_with_retry, the workflow is marked failed, and no later agent
\* step is started in that run: on a fresh supervisor they stay pending.
C4_AbortOnFailure ==
    \A s \in AgentSteps :
        (op = "workflow" /\ ~config.continue_on_failure /\ FailedNow(s)) =>
            /\ ret = Raised
            /\ pc # "returned" => aborted /\ workflow_state.status = "failed"
            /\ \A t \in LaterAgentSteps(s) :
                  /\ t \notin started
                  /\ runs = 1 => StepStatus(t) = "pending"

\* Discovery succeeded, social-watch failed terminally, the run was aborted.
C4_Witness ==
    /\ ~config.continue_on_failure
    /\ op = "workflow"
    /\ runs = 1
    /\ pc = "saving"
    /\ Succeeded("news_gathering")
    /\ FailedNow("social_media_monitoring")
    /\ StepStatus("content_generation") = "pending"

\* The status the spec derives from the outcomes of the steps of this run.
DerivedStatus ==
    IF Succeeded("content_generation") THEN "success"
    ELSE IF Succeeded("news_gathering") \/ Succeeded("social_media_monitoring")
         THEN "partial"
         ELSE "failed"

\* C5 as stated: after run_workflow the status is the derived one, for both
\* settings of continue_on_failure.
C5_Original == WorkflowDecided => workflow_state.status = DerivedStatus

\* C5 amended: the status is the derived one unless a step failure was
\* propagated (continue_on_failure disabled), in which case it is failed
\* whatever succeeded before.
C5_StatusDerivation ==
    WorkflowDecided =>
        workflow_state.status = IF aborted THEN "failed" ELSE DerivedStatus

\* Both branches: an upstream success without content is partial when the
\* workflow was not aborted.
C5_Witness ==
    /\ WorkflowDecided
    /\ ~aborted
    /\ Succeeded("news_gathering")
    /\ FailedNow("content_generation")
    /\ workflow_state.status = "partial"

\* C6: discovery succeeded, social-watch failed, content generation was run
\* on discovery data only and succeeded: the workflow status is success.
C6_SuccessWithoutSocial ==
    ( /\ WorkflowDecided
      /\ Succeeded("news_gathering")
      /\ FailedNow("social_media_monitoring")
      /\ Succeeded("content_generation") )
    => /\ workflow_state.status = "success"
       /\ agent_state.gathered_posts = <<>>
       /\ agent_state.social_media_analysis = <<>>
       /\ agent_state.gathered_news =
             Get(news_results, "curated_content", <<>>)

C6_Witness ==
    /\ WorkflowDecided
    /\ Succeeded("news_gathering")
    /\ FailedNow("social_media_monitoring")
    /\ Succeeded("content_generation")
    /\ agent_state.gathered_news = <<"news">>

\* Content generation was skipped in this run of the workflow.
SkippedNow ==
    /\ WorkflowDecided
    /\ ~aborted
    /\ "content_generation" \notin started
    /\ StepStatus("content_generation") = "skipped"

\* C7 as stated: a skipped content generation gives the status partial.
C7_Original == SkippedNow => workflow_state.status = "partial"

\* C7 amended: a skipped content generation gives the status failed, since
\* the step is skipped only when neither upstream step has a result.
C7_SkippedIsFailed ==
    SkippedNow =>
        /\ workflow_state.status = "failed"
        /\ ~Succeeded("news_gathering")
        /\ ~Succeeded("social_media_monitoring")

\* Both upstream steps failed and content generation was skipped.
C7_Witness ==
    /\ SkippedNow
    /\ FailedNow("news_gathering")
    /\ FailedNow("social_media_monitoring")

\* C8: when run_content_generation has returned, the step is skipped exactly
\* when neither upstream result is usable; with a usable result it was
\* executed and ended success or failed; and the skip invokes no agent,
\* appends no error and leaves the failed-step counter alone.
C8_SkipExactlyWithoutInput ==
    /\ [] ( (WorkflowDecided /\ ~aborted) =>
              /\ StepStatus("content_generation") = "skipped"
                    <=> (~Truthy(news_results) /\ ~Truthy(social_results))
              /\ (Truthy(news_results) \/ Truthy(social_results)) =>
                    /\ "content_generation" \in started
                    /\ StepStatus("content_generation") \in {"success", "failed"} )
    /\ [][ pc' = "skipped" =>
              /\ workflow_state'.steps["content_generation"].status = "skipped"
              /\ workflow_state'.errors = workflow_state.errors
              /\ workflow_state'.metadata = workflow_state.metadata
              /\ invocations' = invocations
              /\ started' = started ]_vars

C8_Witness ==
    /\ pc = "skipped"
    /\ StepStatus("content_generation") = "skipped"
    /\ Len(workflow_state.errors) = 2
    /\ workflow_state.metadata.failed_steps = 2

TerminalStatuses == {"success", "failed", "skipped"}

\* C9: a step whose status is success, failed or skipped never changes
\* status again, whatever supervisor operations follow on the shared
\* supervisor instance.
C9_TerminalForever ==
    [][ \A s \in StepNames :
            StepStatus(s) \in TerminalStatuses =>
                workflow_state'.steps[s].status = StepStatus(s) ]_vars

\* The status changes the spec's per-step state machine allows.
SpecTransitions ==
    { <<"pending", "running">>, <<"running", "success">>,
      <<"running", "failed">>, <<"failed", "retrying">>,
      <<"retrying", "running">>, <<"pending", "skipped">>,
      <<"running", "skipped">> }

\* C10 as stated: every status change of a step is one of the spec's
\* transitions; retrying is entered from failed only.
C10_Original ==
    [][ \A s \in StepNames :
            workflow_state'.steps[s].status # StepStatus(s) =>
                <<StepStatus(s), workflow_state'.steps[s].status>>
                    \in SpecTransitions ]_vars

\* The status changes the supervisor makes: an attempt starts (from pending
\* or retrying, and from a terminal status when the step is run again on
\* the same supervisor), a running attempt ends in success, failed or
\* retrying, and a step that is not running is skipped.
CodeTransitions ==
    { <<from, "running">> : from \in {"pending", "retrying"} \cup TerminalStatuses }
    \cup { <<"running", to>> : to \in {"success", "failed", "retrying"} }
    \cup { <<from, "skipped">> : from \in {"pending", "success", "failed"} }

\* C10 amended: every status change of a step is one of the transitions
\* above; retrying is entered from running only (a retried attempt never
\* passes through failed) and left to running only.
C10_StepStateMachine ==
    [][ \A s \in StepNames :
            workflow_state'.steps[s].status # StepStatus(s) =>
                <<StepStatus(s), workflow_state'.steps[s].status>>
                    \in CodeTransitions ]_vars

\* A step is waiting for its next attempt after a failed one.
C10_Witness ==
    /\ pc = "loop"
    /\ call.attempt = 2
    /\ StepStatus(call.step_name) = "retrying"
    /\ Len(sleeps) = 1

\* A value is a non-empty mapping or a non-empty text.
NonEmptyMappingOrText(v) ==
    \/ v.kind = "dict" /\ DOMAIN v.items # {}
    \/ v.kind = "str" /\ v.val # <<>>

\* C11: when the step function returns a value that is not a non-empty
\* mapping or non-empty text (None, an empty mapping, an empty string, a
\* value of another type), the attempt is not recorded as success: nothing
\* is counted or stored as completed, and the step is retried (status
\* retrying, next attempt) while attempts remain, and marked failed with
\* "Agent returned no valid results" once they are used up; a non-empty
\* mapping or text is recorded as success and returned.
C11_InvalidResultIsRetriableFailure ==
    [][ ( /\ pc = "await"
          /\ Len(outcomes') = Len(outcomes) + 1
          /\ Last(outcomes').kind = "returned" )
        => LET v == Last(outcomes').value
               step == workflow_state'.steps[call.step_name]
           IN IF NonEmptyMappingOrText(v)
              THEN step.status = "success" /\ ret' = Returned(v)
              ELSE /\ step.status # "success"
                   /\ workflow_state'.results = workflow_state.results
                   /\ workflow_state'.metadata.completed_steps =
                         workflow_state.metadata.completed_steps
                   /\ IF call.attempt < call.max_retries
                      THEN /\ step.status = "retrying"
                           /\ pc' = "loop"
                           /\ call'.attempt = call.attempt + 1
                           /\ Len(sleeps') = Len(sleeps) + 1
                      ELSE /\ step.status = "failed"
                           /\ step.error =
                                <<call.agent_name, "failed:">> \o NoValidResults
                           /\ pc' = "returned" ]_vars

\* Every kind of invalid value has been returned by a step function, one of
\* them with attempts left (and retried) and one on the last attempt.
C11_Witness ==
    /\ op = "direct"
    /\ pc = "returned"
    /\ Len(outcomes) = 4
    /\ outcomes[1].kind = "returned" /\ outcomes[1].value = NoneV
    /\ outcomes[2].kind = "returned" /\ outcomes[2].value = DictV(<<>>)
    /\ outcomes[3].kind = "returned" /\ outcomes[3].value = StrV(<<>>)
    /\ outcomes[4].kind = "returned" /\ outcomes[4].value = ListV(<<"item">>)
    /\ Len(sleeps) = 3
    /\ StepStatus(call.step_name) = "failed"

\* C12: every run of the workflow formats the workflow report before it
\* returns: run_workflow goes back to the menu only from the point of
\* compile_final_output where the report has been formatted.
C12_ReportAlwaysFormatted ==
    [][ (op = "workflow" /\ pc # "menu" /\ pc' = "menu") => pc = "report" ]_vars

\* C13: a persistence failure is never fatal.  When the intermediate file of
\* a step could not be written, execute_with_retry has returned the step's
\* result and the step is success; and no step of compile_final_output,
\* whichever write fails, changes the workflow status or ends anywhere but
\* in run_workflow's return to the menu.
C13_PersistenceFailureNotFatal ==
    /\ [] ( (pc = "returned" /\ intermediate = "write_failed") =>
              /\ ret = Returned(Last(outcomes).value)
              /\ NonEmptyMappingOrText(ret.value)
              /\ StepStatus(call.step_name) = "success" )
    /\ [][ (pc \in {"saving", "report"}) =>
              /\ pc' \in {"report", "menu"}
              /\ workflow_state'.status = workflow_state.status
              /\ \A s \in AgentSteps :
                    workflow_state'.steps[s] = workflow_state.steps[s] ]_vars

\* A first run in which the intermediate file of content generation and the
\* state file both failed to be written: the step is success, the workflow
\* is success and run_workflow is back at the menu.
C13_Witness ==
    /\ op = "workflow"
    /\ pc = "menu"
    /\ runs = 1
    /\ call.step_name = "content_generation"
    /\ intermediate = "write_failed"
    /\ StepStatus("content_generation") = "success"
    /\ workflow_state.status = "success"
    /\ persisted.report # NoSnapshot
    /\ persisted.state = NoSnapshot
    /\ StepStatus("final_output") = "failed"

\* Steps that are being executed.
ActiveSteps(ws) == {s \in StepNames : ws.steps[s].status \in {"running", "retrying"}}

\* C14: steps execute one at a time and in the declared order.  At most one
\* step is running or retrying at any time; and when a step is started, no
\* other step is running or retrying, and in a workflow run no step declared
\* after it has been started yet.
C14_StrictlySequential ==
    /\ [] (Cardinality(ActiveSteps(workflow_state)) <= 1)
    /\ [][ \A s \in StepNames :
             ( /\ workflow_state'.steps[s].status = "running"
               /\ workflow_state.steps[s].status # "running" )
             => /\ ActiveSteps(workflow_state) \subseteq {s}
                /\ op = "workflow" =>
                      \A t \in started : StepIndex(t) <= StepIndex(s) ]_vars

\* All four steps have been started in one run, the packaging step last.
C14_Witness ==
    /\ op = "workflow"
    /\ pc = "saving"
    /\ started = StepNames
    /\ StepStatus("final_output") = "running"
    /\ StepStatus("news_gathering") = "failed"
    /\ workflow_state.steps["social_media_monitoring"].attempts > 1

\* First positions of the values of a sequence.
FirstSeen(g) == {j \in 1..Len(g) : \A k \in 1..(j - 1) : g[k] # g[j]}

\* C15: _build_queries never returns more than 50 queries, whatever the
\* sizes of the keyword, trusted-domain and priority-link lists.
C15_AtMostFiftyQueries == phase = "search" => Len(queries) <= 50

\* Sixty or more queries are generated, all different, and 50 are returned.
C15_Witness ==
    /\ phase = "search"
    /\ Len(GeneratedQueries(ng_config)) >= 60
    /\ Cardinality(FirstSeen(GeneratedQueries(ng_config))) >= 60
    /\ Len(queries) = 50

\* C16: the result of _build_queries has no duplicate and is a prefix of the
\* generated sequence with later occurrences removed: its i-th query is the
\* i-th first-seen query of the generated sequence.
C16_FirstSeenPrefix ==
    phase = "search" =>
        LET g == GeneratedQueries(ng_config)
            F == FirstSeen(g)
        IN /\ \A i, j \in 1..Len(queries) : i < j => queries[i] # queries[j]
           /\ Len(queries) <= Cardinality(F)
           /\ \A i \in 1..Len(queries) :
                 \E j \in F : /\ queries[i] = g[j]
                              /\ Cardinality({k \in F : k < j}) = i - 1

\* The generated sequence has duplicates and the result is cut short of its
\* distinct queries.
C16_Witness ==
    /\ phase = "search"
    /\ Cardinality(FirstSeen(GeneratedQueries(ng_config))) <
          Len(GeneratedQueries(ng_config))
    /\ Len(queries) < Cardinality(FirstSeen(GeneratedQueries(ng_config)))
    /\ Len(queries) > 0

\* Calls of the current query that raised or returned nothing, and calls
\* that returned results.
FailedCalls ==
    tally["raises"] + tally["none"] + tally["empty_list"] + tally["empty_results"]
ResultCalls == tally["list"] + tally["results"] + tally["single"]

C18_TransientErrorsAbsorbed ==
    /\ [] (phase \in {"plan", "search", "primary", "feed", "collect", "filter",
                      "enrich", "returned"})
    /\ [] (phase \in {"filter", "enrich", "returned"} =>
              \/ qi = Len(queries) + 1
              \/ Len(all_items) >= HardCap(ng_config.max_results))
    /\ [][ /\ (phase = "collect" /\ feed = "error") =>
                /\ res = ListV(<<>>)
                /\ all_items' = all_items
                /\ phase' = "search"
                /\ qi' = qi + 1
           /\ (phase = "search" /\ qi <= Len(queries)) =>
                phase' = "primary" /\ qi' = qi ]_vars

\* Every call of the first query raised and the feed failed; the query left
\* nothing and the second query is being run.
C18_Witness ==
    /\ phase = "search"
    /\ qi = 2
    /\ Len(queries) = 2
    /\ tally["raises"] = NumCalls
    /\ feed = "error"
    /\ all_items = <<>>

\* C19: gather_news returns at most max_results records, for every
\* max_results >= 0.
C19_AtMostMaxResults ==
    phase = "returned" => Len(enriched) <= ng_config.max_results

\* The records of a sequence have pairwise different urls.
UrlsDistinct(items) ==
    \A i, j \in 1..Len(items) : i < j => items[i].url # items[j].url

\* Every record of `items` is, by url and title, a record of `from`.
DrawnFrom(items, from) ==
    \A i \in 1..Len(items) : \E j \in 1..Len(from) :
        from[j].url = items[i].url /\ from[j].title = items[i].title

\* C20: within one run no two records share a url, in the collected records,
\* the candidates, the filtered records and the returned records; a record
\* once collected is never replaced, a new record is the first of the
\* query's results with its url, and later stages only pass records on.
C20_UrlsUnique ==
    /\ [] ( /\ UrlsDistinct(all_items)
            /\ UrlsDistinct(candidates)
            /\ UrlsDistinct(filtered)
            /\ UrlsDistinct(enriched)
            /\ DrawnFrom(candidates, all_items)
            /\ DrawnFrom(filtered, candidates)
            /\ DrawnFrom(enriched, filtered) )
    /\ [][ phase = "collect" =>
             /\ Len(all_items') >= Len(all_items)
             /\ SubSeq(all_items', 1, Len(all_items)) = all_items
             /\ \A n \in (Len(all_items) + 1)..Len(all_items') :
                   \E i \in 1..Len(res.elems) :
                      /\ res.elems[i].url = all_items'[n].url
                      /\ CleanText(res.elems[i].title) = all_items'[n].title
                      /\ \A k \in 1..(i - 1) :
                            \/ res.elems[k].url # res.elems[i].url
                            \/ res.elems[k].title = "" ]_vars

\* The second query returned a record whose url the first query had brought
\* with another title; the first record is the one returned.
C20_Witness ==
    /\ phase = "returned"
    /\ qi = 3
    /\ tally["results"] = 1
    /\ Len(enriched) = 2
    /\ enriched[1].url = "https://a.org/1"
    /\ enriched[1].title = "Alpha"
    /\ enriched[2].url = "https://b.org/2"

\* The (url, title) pairs of a sequence of records, as they are.
Pairs(items) == [i \in 1..Len(items) |-> <<items[i].url, items[i].title>>]

\* The pairs with leading and trailing whitespace removed.
StrippedPairs(items) ==
    [i \in 1..Len(items) |-> <<Strip(items[i].url), Strip(items[i].title)>>]

\* The values of a sequence in the order of their first occurrence.
InFirstSeenOrder(g) ==
    SelectSeq([j \in 1..Len(g) |-> j], LAMBDA j : j \in FirstSeen(g))

\* The records with a title, a url and a source (given, or the url's domain).
Complete(items) ==
    SelectSeq(items, LAMBDA it :
        /\ it.title # ""
        /\ it.url # ""
        /\ (it.source # "" \/ Domain(it.url) # ""))

\* C21 as stated: of the complete records the output holds every (title,
\* url) pair once, in first-seen order.
C21_Original ==
    phase = "filter" =>
        LET g == Pairs(Complete(all_items))
            first == InFirstSeenOrder(g)
        IN Pairs(candidates) = [n \in 1..Len(first) |-> g[first[n]]]

\* C21: of the complete records the output holds, for every (url, title)
\* pair taken with surrounding whitespace removed, the first record with
\* that pair and no other, in first-seen order.
C21_DedupeFirstSeen ==
    phase = "filter" =>
        LET given == Complete(all_items)
            g == StrippedPairs(given)
            first == InFirstSeenOrder(g)
        IN /\ Len(candidates) = Len(first)
           /\ \A n \in 1..Len(first) :
                 /\ candidates[n].title = given[first[n]].title
                 /\ candidates[n].url = given[first[n]].url
                 /\ candidates[n].published_at = given[first[n]].published_at
                 /\ candidates[n].author = given[first[n]].author

\* Three records, the second a repetition of the first pair with another
\* summary: the first and the third are kept, in that order.
C21_Witness ==
    /\ phase = "filter"
    /\ Len(all_items) = 3
    /\ Pairs(all_items) = << <<"https://a.org/1", "Alpha">>,
                             <<"https://a.org/1", "Alpha">>,
                             <<"https://d.org/4", "Old">> >>
    /\ all_items[1].summary = "first"
    /\ all_items[2].summary = "second"
    /\ Len(candidates) = 2
    /\ candidates[1].summary = "first"
    /\ candidates[2].title = "Old"

Origin(e) ==
    filtered[CHOOSE i \in 1..Len(filtered) :
                /\ filtered[i].url = e.url
                /\ \A k \in 1..(i - 1) : filtered[k].url # e.url]

\* C23: enrichment only adds.  The title, date, author, source and summary a
\* record has before enrichment are the ones it has after it, whatever the
\* page yields; a field that is empty before is the page's value after.
C23_AdditiveMerge ==
    phase = "returned" =>
        \A n \in 1..Len(enriched) :
            LET e == enriched[n]
                it == Origin(e)
            IN /\ e.title = IF it.title # "" THEN it.title ELSE e.scraped_title
               /\ it.published_at # "" => e.published_at = it.published_at
               /\ it.published_at = "" =>
                     e.published_at \in {s.published_at : s \in ScrapeOutcomes}
               /\ it.author # "" => e.author = it.author
               /\ it.author = "" => e.author \in {s.authors : s \in ScrapeOutcomes}
               /\ e.source = it.source
               /\ it.summary # "" => e.summary = it.summary
               /\ it.summary = "" => e.summary = e.scraped_text
               /\ e.url = it.url

\* A record with author, date and title of its own, whose page has another
\* author, date and title: the record keeps its own.
C23_Witness ==
    /\ phase = "returned"
    /\ \E n \in 1..Len(enriched) :
          /\ enriched[n].author = "Bo"
          /\ enriched[n].published_at = "2024-01-10"
          /\ enriched[n].title = "Alpha"
          /\ enriched[n].scraped_title = "Page title"
          /\ enriched[n].scraped_text = "body"

\* The pages neither fetch obtains.
Unreachable(page) == page.fetch # "html" /\ page.get # "html"

\* C24: a page that cannot be fetched or read raises nothing.  scrape_url
\* returns empty fields for it, the record is returned as it was with an
\* empty scraped text, and the records after it are enriched as well.
C24_EnrichmentNeverRaises ==
    /\ phase # "raised"
    /\ \A page \in Pages :
          Unreachable(page) =>
             scrape_url(page) =
                [text |-> "", title |-> "", published_at |-> "", authors |-> ""]
    /\ phase = "returned" =>
          /\ \A n \in 1..Len(enriched) :
                (enriched[n].scraped_text = "" /\ enriched[n].scraped_title = "")
                => LET it == Origin(enriched[n]) IN
                   /\ enriched[n].title = it.title
                   /\ enriched[n].url = it.url
                   /\ enriched[n].source = it.source
                   /\ enriched[n].summary = it.summary
                   /\ enriched[n].type = it.type
                   /\ enriched[n].published_at = it.published_at
                   /\ enriched[n].author = ItemGet(it, "author")
          /\ LET urls == {filtered[i].url : i \in 1..Len(filtered)} IN
             \/ Len(enriched) >= ng_config.max_results
             \/ Len(enriched) = Cardinality(urls)

\* The page of the first record could not be fetched: the record is returned
\* unchanged with an empty scraped text, and the second record is enriched.
C24_Witness ==
    /\ phase = "returned"
    /\ Len(enriched) = 2
    /\ enriched[1].scraped_text = ""
    /\ enriched[1].scraped_title = ""
    /\ enriched[1].title = "Alpha"
    /\ enriched[1].author = "Bo"
    /\ enriched[2].scraped_text = "body"

\* The record is one of the sequence.
Among(it, items) == \E n \in 1..Len(items) : items[n] = it

\* C25: the time filter leaves out every record whose date is before the
\* cutoff date and keeps every record without a date, whatever the cutoff;
\* it leaves out nothing else.
C25_TimeWindow ==
    phase \in {"enrich", "returned"} =>
        LET cutoff == IsoDate(ng_config.start_date_iso) IN
        /\ \A n \in 1..Len(filtered) : Among(filtered[n], candidates)
        /\ \A i \in 1..Len(candidates) :
              LET it == candidates[i] IN
              /\ it.published_at = "" => Among(it, filtered)
              /\ ( /\ cutoff # 0
                    /\ IsoDate(it.published_at) # 0
                    /\ IsoDate(it.published_at) < cutoff )
                  => ~Among(it, filtered)
              /\ ( \/ cutoff = 0
                    \/ IsoDate(it.published_at) = 0
                    \/ IsoDate(it.published_at) >= cutoff )
                  => Among(it, filtered)

\* A record a month older than the cutoff is left out, a record without a
\* date and a record ten days younger are kept.
C25_Witness ==
    /\ phase = "enrich"
    /\ ng_config.start_date_iso = "2024-01-01"
    /\ Len(candidates) = 3
    /\ \E i \in 1..3 : candidates[i].published_at = "2023-12-01"
    /\ \E i \in 1..3 : candidates[i].published_at = ""
    /\ \E i \in 1..3 : candidates[i].published_at = "2024-01-11"
    /\ Len(filtered) = 2
    /\ \A n \in 1..2 : filtered[n].published_at # "2023-12-01"

\* Dated records first, dated records by ascending text of the date.
DatedFirstAscending(dates) ==
    \A n, m \in 1..Len(dates) :
        n < m => /\ (dates[m] # "" => dates[n] # "")
                 /\ (dates[n] # "" /\ dates[m] # "")
                       => TextRank(dates[n]) <= TextRank(dates[m])

TitleGiven(obj) ==
    IF obj.title # "" THEN obj.title
    ELSE IF obj.name # "" THEN obj.name ELSE obj.headline
UrlGiven(obj) ==
    IF obj.url # "" THEN obj.url
    ELSE IF obj.link # "" THEN obj.link ELSE obj.href
SourceGiven(obj) == IF obj.source # "" THEN obj.source ELSE obj.publisher
SnippetGiven(obj) == IF obj.snippet # "" THEN obj.snippet ELSE obj.description

IsValidDate(text) ==
    /\ text.layout \in {"dash", "slash", "dmy", "mdy"}
    /\ IsCalendarDate(text.year, text.month, text.day)
    /\ text.tail = "" \/ (text.layout = "dash" /\ text.tail = "T10:30:00Z")

\* The value is an ISO 8601 text for the calendar date of `text`.
IsIsoOf(value, text) ==
    /\ value # NoneV
    /\ value.layout = "dash"
    /\ value.padded
    /\ <<value.year, value.month, value.day>> =
          <<text.year, text.month, text.day>>
    /\ value.tail \in {"", "T00:00:00", "T10:30:00", "T10:30:00Z",
                        "T10:30:00+00:00"}

\* C28: _normalize_date returns, for a date in an accepted format, an ISO
\* 8601 text of the same date, and None for every text that is not a valid
\* date; it never raises.
C28_DateNormalization ==
    date_ret # NoRet =>
        /\ date_ret.kind = "returned"
        /\ IF IsValidDate(dt_str) THEN IsIsoOf(date_ret.value, dt_str)
           ELSE date_ret.value = NoneV

\* The known result keys.
ResultKeySet == {DEFAULT_RESULT_KEYS[i] : i \in 1..Len(DEFAULT_RESULT_KEYS)}

\* C29: whatever the shape of the agent's output, run_agent_with_runner
\* returns one non-empty mapping whose keys are known result keys; when no
\* output is to be had it raises and returns no empty mapping.
C29_KnownKeyMapping ==
    runner_ret # NoRet =>
        \/ runner_ret = Raised
        \/ /\ runner_ret.kind = "returned"
           /\ runner_ret.value.kind = "dict"
           /\ DOMAIN runner_ret.value.items # {}
           /\ DOMAIN runner_ret.value.items \subseteq ResultKeySet

\* C30: the queries are run one by one until the collected records reach
\* the cap max(80, max_results * 6) or the queries are used up: no query is
\* run once the cap is reached, and the collected records never exceed it.
C30_HardCap ==
    LET cap == IF ng_config.max_results * 6 > 80
               THEN ng_config.max_results * 6 ELSE 80
    IN /\ phase \in {"primary", "feed", "collect"} => Len(all_items) < cap
       /\ phase = "search" => Len(all_items) < cap
       /\ phase = "filter" => (Len(all_items) >= cap \/ qi > Len(queries))
       /\ Len(all_items) <= cap

\* C31: whenever content generation is executed rather than skipped, the
\* state handed to it carries the upstream output: gathered_news or
\* gathered_posts is not empty, and gathered_news is not empty whenever
\* discovery returned a valid result.
C31_InputCarriesUpstream ==
    (op = "workflow" /\ "content_generation" \in started) =>
        /\ agent_state.gathered_news # <<>> \/ agent_state.gathered_posts # <<>>
        /\ IsValidResult(news_results) => agent_state.gathered_news # <<>>

\* C32: in every reachable state every step record has
\* attempts <= max_attempts, whatever config.max_retries is.
C32_AttemptsWithinMax ==
    \A s \in StepNames :
        workflow_state.steps[s].attempts <= workflow_state.steps[s].max_attempts

\* C33: in every reachable state completed_steps + failed_steps is at most
\* total_steps (so the success rate lies between 0 and 100), also after
\* repeated workflow runs and single-step runs on the same supervisor.
C33_CountersWithinTotal ==
    /\ workflow_state.metadata.completed_steps
          + workflow_state.metadata.failed_steps
       <= workflow_state.metadata.total_steps
    /\ workflow_state.metadata.completed_steps * 100
       <= workflow_state.metadata.total_steps * 100

\* C34: when execute_with_retry has returned or raised, the step it ran is
\* success or failed, never pending, running or retrying, for every
\* max_retries including 0.
C34_TerminalOnReturn ==
    pc = "returned" => StepStatus(call.step_name) \in {"success", "failed"}

\* Loop positions a call of execute_with_retry at position p with frame c
\* has still to pass.
PositionsLeft(p, c) ==
    IF p = "returned" THEN 0
    ELSE 2 * (c.max_retries + 1 - c.attempt) + (IF p = "loop" THEN 1 ELSE 0)

\* C35: every call of execute_with_retry terminates, provided each
\* invocation of the step function returns or raises.  The call invokes the
\* step function at most max_retries times and sleeps at most
\* max_retries - 1 times (never when max_retries is 0); the step function
\* is invoked again only after a failed attempt that was put to retrying,
\* never after a success or a terminal failure; every step of the call
\* lowers the number of loop positions left; and the first call of a
\* behaviour always comes to its return or raise.
C35_CallTerminates ==
    /\ [] ( pc \in {"loop", "await", "returned"} =>
              /\ Len(outcomes) + (IF pc = "await" THEN 1 ELSE 0)
                    <= call.max_retries
              /\ call.max_retries >= 1 => Len(sleeps) <= call.max_retries - 1
              /\ call.max_retries = 0 => sleeps = <<>>
              /\ PositionsLeft(pc, call) >= 0 )
    /\ [][ (pc \in {"loop", "await"}) =>
              (PositionsLeft(pc', call') < PositionsLeft(pc, call)) ]_vars
    /\ [][ invocations' # invocations =>
              /\ pc = "loop"
              /\ outcomes # <<>> =>
                    /\ StepStatus(call.step_name) = "retrying"
                    /\ ~IsValidResult(Last(outcomes).value)
                    /\ Len(sleeps) = Len(outcomes) ]_vars
    /\ (runs = 1 /\ pc \in {"loop", "await"}) ~> (pc = "returned")

\* A call that used every one of its four attempts and slept three times.
C35_Witness ==
    /\ op = "direct"
    /\ pc = "returned"
    /\ call.max_retries = 4
    /\ Len(outcomes) = 4
    /\ Len(sleeps) = 3
    /\ StepStatus(call.step_name) = "failed"

\* C36: in every reachable state the failed-step counter equals the length
\* of the errors sequence: a step's terminal failure appends exactly one
\* entry, after the earlier ones, naming the step and its error, while a
\* failed attempt that is retried, a success and a skip append none.
C36_FailedCountsErrors ==
    /\ [] (workflow_state.metadata.failed_steps = Len(workflow_state.errors))
    /\ [][ \A s \in StepNames :
             /\ ( /\ workflow_state'.steps[s].status = "failed"
                  /\ StepStatus(s) # "failed" )
                => workflow_state'.errors =
                      Append(workflow_state.errors,
                             [step |-> s,
                              error |-> workflow_state'.steps[s].error])
             /\ ( /\ workflow_state'.steps[s].status
                        \in {"retrying", "success", "skipped", "running"}
                  /\ workflow_state'.steps[s].status # StepStatus(s) )
                => workflow_state'.errors = workflow_state.errors ]_vars
    /\ [][ workflow_state'.errors # workflow_state.errors =>
             \E s \in StepNames :
                /\ StepStatus(s) = "running"
                /\ workflow_state'.steps[s].status = "failed" ]_vars

\* Discovery failed on its second attempt after a retry, social-watch failed
\* too and content generation was skipped: two errors, in that order.
C36_Witness ==
    /\ op = "workflow"
    /\ pc = "compile"
    /\ runs = 1
    /\ workflow_state.steps["news_gathering"].attempts = 2
    /\ StepStatus("content_generation") = "skipped"
    /\ Len(workflow_state.errors) = 2
    /\ workflow_state.errors[1].step = "news_gathering"
    /\ workflow_state.errors[2].step = "social_media_monitoring"

\* C37: a failed attempt that is going to be retried changes only the
\* step's status, to retrying: the results, the errors, the counters, the
\* step's recorded error and the workflow status are as before.
C37_RetryChangesStatusOnly ==
    [][ (pc = "await" /\ pc' = "loop") =>
          /\ workflow_state'.steps[call.step_name].status = "retrying"
          /\ workflow_state' =
                [workflow_state EXCEPT
                    !.steps[call.step_name].status = "retrying"]
          /\ workflow_state'.results = workflow_state.results
          /\ workflow_state'.errors = workflow_state.errors
          /\ workflow_state'.metadata = workflow_state.metadata
          /\ workflow_state'.steps[call.step_name].error =
                workflow_state.steps[call.step_name].error
          /\ workflow_state'.status = workflow_state.status ]_vars

\* Discovery is waiting for its next attempt in a second run of the
\* workflow, with the result and the error of the first run still recorded.
C37_Witness ==
    /\ op = "workflow"
    /\ runs = 2
    /\ pc = "loop"
    /\ call.step_name = "news_gathering"
    /\ call.attempt = 2
    /\ StepStatus("news_gathering") = "retrying"
    /\ "news_gathering" \in DOMAIN workflow_state.results
    /\ Len(workflow_state.errors) = 1

\* C38: the report and the state file are written after the workflow
\* status has been set for good and while the packaging step is still
\* running: neither ever records final_output as success or failed, and
\* nothing that happens to final_output changes the workflow status.
C38_ArtifactsBeforePackagingEnds ==
    /\ [] ( \A a \in {"report", "state"} :
              persisted[a] # NoSnapshot =>
                  /\ persisted[a].steps["final_output"] = "running"
                  /\ persisted[a].status \in {"success", "partial", "failed"} )
    /\ [][ persisted' # persisted =>
             /\ StepStatus("final_output") = "running"
             /\ workflow_state.status \in {"success", "partial", "failed"}
             /\ \A a \in {"report", "state"} :
                   persisted'[a] \in {persisted[a], Snapshot(workflow_state)} ]_vars
    /\ [][ workflow_state'.steps["final_output"]
               # workflow_state.steps["final_output"]
           => workflow_state'.status = workflow_state.status ]_vars

\* A second run is over: the packaging step has ended in success, and the
\* state file written in this run records it as running under the final
\* workflow status.
C38_Witness ==
    /\ op = "workflow"
    /\ runs = 2
    /\ pc = "menu"
    /\ StepStatus("final_output") = "success"
    /\ workflow_state.metadata.completed_steps >= 2
    /\ persisted.state = [Snapshot(workflow_state) EXCEPT
                             !.steps["final_output"] = "running"]
    /\ persisted.state.status = "partial"

\* C39: local validation is idempotent: validating the validated records
\* again returns the same records in the same order, whatever the input.
C39_ValidateIdempotent ==
    phase # "validate" => validate_items_local(candidates) = candidates

\* Records were dropped and merged by the first validation: three records
\* went in, among them one without a title and a repeated one, and one
\* came out, with its source and summary filled in.
C39_Witness ==
    /\ phase = "filter"
    /\ Len(all_items) = 3
    /\ Len(candidates) = 1
    /\ all_items[1].source = ""
    /\ candidates[1].source = "a.org"
    /\ \E i \in 1..3 : all_items[i].title = ""
    /\ \E i \in 2..3 : ValidateKey(all_items[i]) = ValidateKey(all_items[1])

====
